---------------------------- MODULE Spec2Model ----------------------------
(***************************************************************************)
(* Behavioural telemetry pipeline of the adaptive tutor front end          *)
(* (frontend/js/modules/behavior_tracker.js and its hot-interval variant). *)
(*                                                                         *)
(* The tracker is single threaded: every handler turn (a DOM event, an     *)
(* editor change notification, a timer callback) is one atomic action.     *)
(* Time is a logical clock `now` (Date.now()); a timer is the clock value  *)
(* at which its callback becomes due, and the clock does not pass a due    *)
(* timer.  Strings are modelled by what the code reads of them: an editor  *)
(* content by its length, a participant id by its truthiness and value.    *)
(*                                                                         *)
(* Specifications:                                                         *)
(*   Spec          logEvent / identity resolution / transport hand-off     *)
(*   SpecClick     page_click batching (size, timer and forced flushes)    *)
(*   SpecClickFair page_click batching with fair timers and clock          *)
(*   SpecDebounce  debounced code_edit reporting                           *)
(*   SpecEdit      smart code monitoring (edit cycles, problem events)     *)
(*   SpecSeverity  _calculateProblemSeverity as a pure function            *)
(*   SpecIdle      idle sessions, the idle hint and page focus changes     *)
(*   SpecSend      the _sendPayload variants and endpoint resolution       *)
(*   SpecInit      init(config), initBehaviorTracker, initSmartCodeTracking *)
(*   SpecClickRecord  _buildClickRecord as a pure function                 *)
(*   SpecSurfaces  initSmartCodeTracking on any editors object, then edits *)
(***************************************************************************)
EXTENDS Integers, Sequences, FiniteSets, TLC

VARIABLES
    now,                     \* Date.now()
    getParticipantIdResult,  \* what session.js getParticipantId() does when called
    windowParticipantId,     \* window.participantId
    apiClient,               \* window.apiClient.postWithoutAuth: "missing", "ok", or "throws" when called
    sent,                    \* payloads handed to the transport, in order
    inflight,                \* number of handed-over requests that have not settled yet
    calls,                   \* number of logEvent calls made by the host page
    dropped,                 \* ids of the host events whose logEvent call sent nothing
    raised,                  \* ids of the host events whose logEvent call threw to its caller
                             \* (in SpecSurfaces: the editors whose change listener threw)
    \* ---- page click batching ----
    clickVariant,            \* which tracker file is loaded: "page_click" or "dom_click_stats"
    clickCfgBatch,           \* this._clickCfg.batch
    clickBatch,              \* this._clickBatch
    clickBatchTimer,         \* this._clickBatchTimer: NoTimer, StaleTimer or the due time
    lastFlushAt,             \* this._lastFlushAt (dom_click_stats variant)
    clicks,                  \* number of click events handled so far
    flushes,                 \* every _sendClickBatch(items, isFinal) call, in order
    documentHidden,          \* document.hidden
    flushTriggers,           \* for every entry of flushes: made by a "click", the "timer" or a "forced" flush
    \* ---- editors and the debounced code_edit report ----
    editorLen,               \* length of each editor's content (editors[name].getValue().length)
    debTimerId,              \* debounce: timerId (NoTimer or the due time)
    debLastCallTime,         \* debounce: lastCallTime
    debLastArgs,             \* debounce: lastArgs (<<>> when undefined)
    editSignals,             \* every onDidChangeModelContent notification: [at, name]
    codeEdits,               \* every logEvent('code_edit', ...) call: [at, after, name, newLength]
    \* ---- smart code monitoring ----
    trackedEditors,          \* editor types registered by initSmartCodeTracking(editors)
    contentLengths,          \* content lengths the tracked editors take in this run
    codeMonitorStates,       \* this.codeMonitorStates
    significantEdits,        \* this.significantEdits
    problemEvents,           \* this.problemEvents
    lastHintTime,            \* this.hintConfig.lastHintTime
    handled,                 \* number of calls made to the code monitor so far
    turn,                    \* what the most recent _smartRecordCodeChange call saw
    cycleRun,                \* per editor: consecutive recorded edit cycles since the reset
    unsentEdits,             \* records pushed since _submitSignificantEdits last submitted
    \* ---- severity classification ----
    severityInput,           \* argument of _calculateProblemSeverity
    severityResult,          \* its return value ("none" before the call)
    \* ---- idle tracking ----
    idleVariant,             \* "none" (initIdleAndFocus not called), "idle_session" or "fixed_timeout"
    idleHintConfig,          \* this.idleHintConfig (without the message texts)
    idleTimer,               \* this.idleTimer: NoTimer, StaleTimer or the due time
    idleHintTimer,           \* this._idleHintTimer
    lastActivityTs,          \* this._lastActivityTs
    idleStartTs,             \* this._idleStartTs (NoIdleStart when null)
    idleMsgIdx,              \* this._idleMsgIdx
    idleSignals,             \* number of DOM events delivered to the idle listeners so far
    idleTurn,                \* which idle listener or timer callback ran last
    idleEpisode,             \* number of idle sessions opened so far
    hintsShown,              \* every problemHintNeeded dispatch of _maybeShowIdleHint
    \* ---- transport selection and endpoint resolution ----
    sendVariant,             \* which _sendPayload is loaded: "api_client", "beacon_or_fetch", "beacon_or_fetch_omit"
    beaconAvailable,         \* typeof navigator.sendBeacon === 'function'
    configEndpoint,          \* config.endpoint handed to init
    globalApiBase,           \* window.__API_BASE__
    metaApiBase,             \* content of <meta name="api-base">
    endpoint,                \* this._endpoint
    endpointResolved,        \* init(config) has run
    wire,                    \* every request issued by _sendPayload, in order
    sendCalls,               \* number of logEvent calls made in a transport run
    \* ---- init(config) and initSmartCodeTracking(editors) ----
    initConfig,              \* the feature flags set in config
    windowEditors,           \* window.editors is set
    editorHooks,             \* per editor passed in: "missing", "nohook" or "hook"
    installed,               \* features whose init method ran to its end
    initOutcome,             \* per initialising call: "none" before it, then "returned" or "raised"
    \* ---- click record ----
    clickTarget,             \* the clicked element: tag, type, attributes, text
    includeTextMaxLen,       \* this._clickCfg.includeTextMaxLen
    clickRecord              \* what _buildClickRecord returned (NoRecord before the call)

idVars == <<getParticipantIdResult, windowParticipantId, apiClient>>

logVars == <<calls, dropped, raised>>

clickVars == <<clickVariant, clickCfgBatch, clickBatch, clickBatchTimer,
               lastFlushAt, clicks, flushes, documentHidden, flushTriggers>>

debVars == <<debTimerId, debLastCallTime, debLastArgs, editSignals, codeEdits>>

monVars == <<trackedEditors, contentLengths, codeMonitorStates, significantEdits,
             problemEvents, lastHintTime, handled, turn, cycleRun, unsentEdits>>

sevVars == <<severityInput, severityResult>>

idleVars == <<idleVariant, idleHintConfig, idleTimer, idleHintTimer, lastActivityTs,
              idleStartTs, idleMsgIdx, idleSignals, idleTurn, idleEpisode, hintsShown>>

sendVars == <<sendVariant, beaconAvailable, configEndpoint, globalApiBase, metaApiBase,
              endpoint, endpointResolved, wire, sendCalls>>

initVars == <<initConfig, windowEditors, editorHooks, installed, initOutcome>>

recordVars == <<clickTarget, includeTextMaxLen, clickRecord>>

auxVars == <<sendVars, initVars, recordVars>>

vars == <<now, idVars, sent, inflight, logVars, clickVars, editorLen, debVars,
          monVars, sevVars, idleVars, auxVars>>

----------------------------------------------------------------------------
(* Bounds of the model *)

MaxCalls == 4

MaxClicks == 4

(* the clock runs from StartTime to StartTime + MaxElapsed *)
MaxElapsed == 3

(* this._clickCfg: maxBatchSize, flushInterval, frequentFlushInterval, scaled *)
MaxBatchSize == 3

FlushInterval == 2

FrequentFlushInterval == 1

MaxSignals == 4

(* longest editor content *)
MaxLen == 2

(* this.debounceMs, scaled *)
DebounceMs == 2

(* the clock of a code monitoring run ends at StartTime + MaxEditElapsed *)
MaxEditElapsed == 2

(* calls made to the code monitor in a run *)
MaxEdits == 4

(* calls made in a run that empties and refills one editor *)
MaxCycleEdits == 7

(* longest content of a monitored editor *)
MaxCodeLen == 4

(* this.codeMonitoringConfig, scaled *)
MinChangeThreshold == 2

MeaningfulEditTimeout == 1

(* maxHistoryLength is a whole number of submission batches (100 = 20 * 5) *)
HistoryBatches == 1

ProblemDetectionThreshold == 3

(* the batch size 5 of _completeEditCycle / _submitSignificantEdits /       *)
(* _recordMeaningfulEdit and the large addition size 50, scaled            *)
SubmitBatchSize == 2

MaxHistoryLength == HistoryBatches * SubmitBatchSize

LargeAddition == 3

(* this.hintConfig: hintThreshold; cooldownPeriod, scaled *)
HintThreshold == 3

HintCooldown == 2

(* the messages _generateHintMessage picks from *)
NumHintMessages == 4

(* editBuffer capacity 20, scaled *)
EditBufferCap == 3

(* largest consecutive edit count classified *)
MaxCount == 60

(* this.idleThreshold, scaled *)
IdleThreshold == 2

(* idleHintConfig.hintAfterMs, scaled: the default is shorter than idleThreshold *)
HintAfterMs == 1

(* a delayAfterIdleMs the page may configure *)
HintDelay == 1

(* idleHintConfig.cooldownMs, scaled *)
CooldownMs == 3

(* idleHintConfig.messages.length *)
NumIdleMessages == 5

(* DOM events delivered to the idle listeners in a run *)
MaxIdleSignals == 4

(* the clock of an idle tracking run ends at StartTime + MaxIdleElapsed *)
MaxIdleElapsed == 6

(* resetCodeMonitoring calls in a row *)
MaxResets == 2

(* change notifications handled in a run of SpecSurfaces *)
MaxSurfaceSignals == 2

(* logEvent calls made in a transport run *)
MaxSendCalls == 3

(* longest window.__API_BASE__ / meta content, in characters *)
MaxBaseLen == 2

(* this._clickCfg.includeTextMaxLen, scaled *)
IncludeTextMaxLen == 2

(* longest text of a clicked element, in characters *)
MaxTextLen == 4

(* Date.now() when the page loads: far later than any timeout after the epoch *)
StartTime == 3

----------------------------------------------------------------------------
(* Identity resolution and the wire record: logEvent *)

NoId == "none"

(* getParticipantId() may throw, return null, return '' or return an id *)
ProviderResults == {"throws", "null", "", "p1"}

(* window.participantId may be undefined, '' or an id *)
WindowIds == {"undefined", "", "w1"}

Truthy(v) == v \notin {"throws", "null", "", "undefined", NoId}

(* a resolution that asks the global fallback before the provider *)
ResolveParticipantIdFallbackFirst(provider, fallback) ==
    IF Truthy(fallback) THEN fallback
    ELSE IF Truthy(provider) THEN provider
    ELSE NoId

(* try { participant_id = getParticipantId() } catch {} ;                   *)
(* if (!participant_id && window.participantId) participant_id = window... *)
ResolveParticipantId(provider, fallback) ==
    LET fromProvider == IF provider = "throws" THEN NoId ELSE provider
    IN  IF Truthy(fromProvider) THEN fromProvider
        ELSE IF Truthy(fallback) THEN fallback
        ELSE NoId

(* _sendPayload calls postWithoutAuth outside any try block: an exception   *)
(* thrown by the call itself leaves _sendPayload and logEvent              *)
SendPayloadRaises == apiClient = "throws"

(* _sendPayload: no apiClient -> console.error and return; otherwise the    *)
(* payload is handed to postWithoutAuth, whose rejection is caught.        *)
SendPayload(payload) ==
    IF apiClient = "missing" THEN <<>> ELSE <<payload>>

(* logEvent without the `if (!participant_id) return` guard                 *)
LogEventUngated(eventType, eventData) ==
    SendPayload([participant_id |->
                     ResolveParticipantId(getParticipantIdResult, windowParticipantId),
                 event_type     |-> eventType,
                 event_data     |-> eventData,
                 timestamp      |-> now])

(* logEvent(eventType, eventData): the payloads it hands to the transport   *)
LogEvent(eventType, eventData) ==
    LET participant_id ==
            ResolveParticipantId(getParticipantIdResult, windowParticipantId)
    IN  IF ~Truthy(participant_id) THEN <<>>
        ELSE SendPayload([participant_id |-> participant_id,
                          event_type     |-> eventType,
                          event_data     |-> eventData,
                          timestamp      |-> now])

(* the dom_click_stats variant: sendBeacon when available, else a           *)
(* keep-alive fetch; either way the payload is handed to a transport       *)
SendPayloadBeacon(payload) == <<payload>>

LogEventBeacon(eventType, eventData) ==
    LET participant_id ==
            ResolveParticipantId(getParticipantIdResult, windowParticipantId)
    IN  IF ~Truthy(participant_id) THEN <<>>
        ELSE SendPayloadBeacon([participant_id |-> participant_id,
                                event_type     |-> eventType,
                                event_data     |-> eventData,
                                timestamp      |-> now])

(* the payloads `out` of one logEvent call are handed over; the request is  *)
(* fire-and-forget and settles in a later turn (a call that threw left no *)
(* request behind)                                                         *)
Transmit(out) ==
    /\ sent' = sent \o out
    /\ inflight' = IF SendPayloadRaises THEN inflight ELSE inflight + Len(out)

----------------------------------------------------------------------------
(* Click batching: constructor state *)

NoTimer == -1

(* a timer handle whose callback has already run: still truthy in the code *)
StaleTimer == -2

ClickConstructed ==
    /\ clickVariant = "page_click"
    /\ clickCfgBatch = TRUE
    /\ clickBatch = <<>>
    /\ clickBatchTimer = NoTimer
    /\ lastFlushAt = 0
    /\ clicks = 0
    /\ flushes = <<>>
    /\ documentHidden = FALSE
    /\ flushTriggers = <<>>

----------------------------------------------------------------------------
(* Editors and debounce: constructor state *)

EditorNames == {"html", "css", "js"}

EditorsConstructed ==
    /\ editorLen = [e \in EditorNames |-> 0]
    /\ debTimerId = NoTimer
    /\ debLastCallTime = -1
    /\ debLastArgs = <<>>
    /\ editSignals = <<>>
    /\ codeEdits = <<>>

----------------------------------------------------------------------------
(* Smart code monitoring: constructor state *)

(* _createEditorState(); editBuffer holds the number of buffered entries,   *)
(* which are written and evicted but never read                            *)
CreateEditorState ==
    [lastLength        |-> 0,
     lastMeaningfulEdit |-> 0,
     isDeleting        |-> FALSE,
     deleteStartTime   |-> 0,
     deleteStartLength |-> 0,
     consecutiveEdits  |-> 0,
     editBuffer        |-> 0]

NoTurn ==
    [editor |-> "none", lengthChange |-> 0, elapsed |-> 0, completed |-> FALSE,
     netChange |-> 0, consecutiveEdits |-> 0, resets |-> 0, cleared |-> 0, clearedProblems |-> 0]

MonitorConstructed ==
    /\ trackedEditors = {}
    /\ contentLengths = {}
    /\ codeMonitorStates = [e \in EditorNames |-> CreateEditorState]
    /\ significantEdits = <<>>
    /\ problemEvents = <<>>
    /\ lastHintTime = 0
    /\ handled = 0
    /\ turn = NoTurn
    /\ cycleRun = [e \in EditorNames |-> 0]
    /\ unsentEdits = <<>>

SeverityConstructed ==
    /\ severityInput = 0
    /\ severityResult = "none"

----------------------------------------------------------------------------
(* Idle tracking: constructor state *)

(* this._idleStartTs = null *)
NoIdleStart == -1

(* a configuration key that is absent (typeof ... !== 'number') *)
Undefined == -1

DefaultIdleHintConfig ==
    [hintAfterMs      |-> HintAfterMs,
     delayAfterIdleMs |-> Undefined,
     cooldownMs       |-> CooldownMs,
     lastHintTs       |-> 0]

IdleConstructed ==
    /\ idleVariant = "none"
    /\ idleHintConfig = DefaultIdleHintConfig
    /\ idleTimer = NoTimer
    /\ idleHintTimer = NoTimer
    /\ lastActivityTs = StartTime
    /\ idleStartTs = NoIdleStart
    /\ idleMsgIdx = 0
    /\ idleSignals = 0
    /\ idleTurn = "none"
    /\ idleEpisode = 0
    /\ hintsShown = <<>>

----------------------------------------------------------------------------
(* Transport, init and click record: constructor state *)

(* '/api/v1/behavior/log' *)
DefaultPath == <<"/", "log">>

(* config.endpoint not given *)
NoEndpoint == [kind |-> "undefined", chars |-> <<>>]

SendConstructed ==
    /\ sendVariant = "api_client"
    /\ beaconAvailable = TRUE
    /\ configEndpoint = NoEndpoint
    /\ globalApiBase = NoEndpoint
    /\ metaApiBase = NoEndpoint
    /\ endpoint = DefaultPath
    /\ endpointResolved = FALSE
    /\ wire = <<>>
    /\ sendCalls = 0

(* the calls that set the tracker up *)
InitCallers == {"init", "initBehaviorTracker", "initSmartCodeTracking"}

InitConstructed ==
    /\ initConfig = {}
    /\ windowEditors = FALSE
    /\ editorHooks = [e \in EditorNames |-> "missing"]
    /\ installed = {}
    /\ initOutcome = [c \in InitCallers |-> "none"]

NoTarget == [tag |-> "none", type |-> "none", attr |-> "none", text |-> <<>>]

NoRecord == [built |-> FALSE, interactive |-> FALSE, contentIsNull |-> TRUE, content |-> <<>>, content_len |-> 0]

RecordConstructed ==
    /\ clickTarget = NoTarget
    /\ includeTextMaxLen = IncludeTextMaxLen
    /\ clickRecord = NoRecord

AuxConstructed ==
    /\ SendConstructed
    /\ InitConstructed
    /\ RecordConstructed

----------------------------------------------------------------------------
(* Spec: the host page calls logEvent while the identity sources change *)

HostEventTypes == {"test_run", "dom_element_select"}

Init ==
    /\ now = StartTime
    /\ getParticipantIdResult \in ProviderResults
    /\ windowParticipantId \in WindowIds
    /\ apiClient \in {"missing", "ok", "throws"}
    /\ sent = <<>>
    /\ inflight = 0
    /\ calls = 0
    /\ dropped = {}
    /\ raised = {}
    /\ ClickConstructed
    /\ EditorsConstructed
    /\ MonitorConstructed
    /\ SeverityConstructed
    /\ IdleConstructed
    /\ AuxConstructed

(* session.js starts or loses a session *)
SetProvider ==
    /\ \E r \in ProviderResults :
          /\ r # getParticipantIdResult
          /\ getParticipantIdResult' = r
    /\ UNCHANGED <<now, windowParticipantId, apiClient, sent, inflight, calls, dropped, raised>>
    /\ UNCHANGED <<clickVars, editorLen, debVars, monVars, sevVars, idleVars, auxVars>>

(* the page assigns window.participantId *)
SetWindowParticipantId ==
    /\ \E w \in WindowIds :
          /\ w # windowParticipantId
          /\ windowParticipantId' = w
    /\ UNCHANGED <<now, getParticipantIdResult, apiClient, sent, inflight, calls, dropped, raised>>
    /\ UNCHANGED <<clickVars, editorLen, debVars, monVars, sevVars, idleVars, auxVars>>

(* tracker.logEvent(type, {id}) called by the host page *)
LogEventCall ==
    /\ calls < MaxCalls
    /\ \E t \in HostEventTypes :
          LET out == LogEvent(t, [id |-> calls + 1])
          IN  /\ Transmit(out)
              /\ dropped' = IF out = <<>> THEN dropped \cup {calls + 1} ELSE dropped
              /\ raised' = IF out # <<>> /\ SendPayloadRaises
                           THEN raised \cup {calls + 1} ELSE raised
    /\ calls' = calls + 1
    /\ UNCHANGED <<now, getParticipantIdResult, windowParticipantId, apiClient>>
    /\ UNCHANGED <<clickVars, editorLen, debVars, monVars, sevVars, idleVars, auxVars>>

(* a settling request that sends its payload a second time *)
RequestSettlesRetrying ==
    /\ inflight > 0
    /\ inflight' = inflight - 1
    /\ sent' = Append(sent, sent[Len(sent)])
    /\ UNCHANGED <<now, idVars, logVars, clickVars, editorLen, debVars, monVars, sevVars, idleVars, auxVars>>

(* the promise of an earlier request resolves, or rejects into .catch       *)
RequestSettles ==
    /\ inflight > 0
    /\ inflight' = inflight - 1
    /\ UNCHANGED <<now, idVars, sent, logVars, clickVars, editorLen, debVars, monVars, sevVars, idleVars, auxVars>>

Next ==
    \/ SetProvider
    \/ SetWindowParticipantId
    \/ LogEventCall
    \/ RequestSettles

Spec == Init /\ [][Next]_vars

(* C1: a payload reaches the transport only from a logEvent call that       *)
(* resolved a non-empty participant id in that same call, and carries that *)
(* id; a call that resolves no id sends nothing and stores nothing, and    *)
(* its event is never delivered by a later call.                           *)
C1_SentOnlyWithIdentity ==
    /\ [](\A i \in DOMAIN sent :
            /\ Truthy(sent[i].participant_id)
            /\ sent[i].event_data.id \notin dropped)
    /\ [][ /\ sent' # sent =>
               /\ calls' = calls + 1
               /\ Truthy(ResolveParticipantId(getParticipantIdResult,
                                              windowParticipantId))
               /\ Len(sent') = Len(sent) + 1
               /\ SubSeq(sent', 1, Len(sent)) = sent
               /\ sent'[Len(sent')].participant_id =
                      ResolveParticipantId(getParticipantIdResult,
                                           windowParticipantId)
               /\ sent'[Len(sent')].event_data.id = calls'
           /\ (calls' = calls + 1 /\
               ~Truthy(ResolveParticipantId(getParticipantIdResult,
                                            windowParticipantId)))
                 => (sent' = sent /\ calls' \in dropped')
         ]_vars

(* an event was dropped for want of an id, and a later call was delivered   *)
C1_Witness ==
    \E i \in DOMAIN sent : \E d \in dropped : d < sent[i].event_data.id

----------------------------------------------------------------------------
(* SpecClick: page click batching *)

ClickVariants == {"page_click", "dom_click_stats"}

(* _sendClickBatch that ignores its isFinal argument *)
SendClickBatchNeverFinal(items, isFinal) ==
    LET out == IF clickVariant = "page_click"
               THEN LogEvent("page_click",
                             [count |-> Len(items), items |-> items, final |-> FALSE])
               ELSE LogEventBeacon("dom_click_stats",
                                   [count |-> Len(items), items |-> items])
    IN  /\ Transmit(out)
        /\ flushes' = Append(flushes, [items |-> items, final |-> isFinal,
                                       at |-> now, delivered |-> out # <<>>])

(* _sendClickBatch(items, isFinal) *)
SendClickBatch(items, isFinal) ==
    LET out == IF clickVariant = "page_click"
               THEN LogEvent("page_click",
                             [count |-> Len(items), items |-> items, final |-> isFinal])
               ELSE LogEventBeacon("dom_click_stats",
                                   [count |-> Len(items), items |-> items])
    IN  /\ Transmit(out)
        /\ flushes' = Append(flushes, [items |-> items, final |-> isFinal,
                                       at |-> now, delivered |-> out # <<>>])

(* a flush that sends the buffer but leaves it in place *)
FlushClickBatchNoDetach(batch, isFinal, timerIfEmpty) ==
    IF batch = <<>>
    THEN /\ clickBatch' = batch
         /\ clickBatchTimer' = timerIfEmpty
         /\ UNCHANGED <<lastFlushAt, sent, inflight, flushes>>
    ELSE /\ clickBatch' = batch
         /\ clickBatchTimer' = NoTimer
         /\ lastFlushAt' = IF clickVariant = "dom_click_stats" THEN now ELSE lastFlushAt
         /\ SendClickBatch(batch, isFinal)

(* a flush that keeps the records for a later flush when no participant id  *)
(* can be resolved                                                         *)
FlushClickBatchKeepingUnsent(batch, isFinal, timerIfEmpty) ==
    IF batch = <<>>
    THEN /\ clickBatch' = batch
         /\ clickBatchTimer' = timerIfEmpty
         /\ UNCHANGED <<lastFlushAt, sent, inflight, flushes>>
    ELSE IF ~Truthy(ResolveParticipantId(getParticipantIdResult, windowParticipantId))
    THEN /\ clickBatch' = batch
         /\ clickBatchTimer' = now + FlushInterval
         /\ lastFlushAt' = lastFlushAt
         /\ SendClickBatch(batch, isFinal)
    ELSE /\ clickBatch' = <<>>
         /\ clickBatchTimer' = NoTimer
         /\ lastFlushAt' = IF clickVariant = "dom_click_stats" THEN now ELSE lastFlushAt
         /\ SendClickBatch(batch, isFinal)

(* a flush that leaves the pending timer running *)
FlushClickBatchKeepingTimer(batch, isFinal, timerIfEmpty) ==
    IF batch = <<>>
    THEN /\ clickBatch' = batch
         /\ clickBatchTimer' = timerIfEmpty
         /\ UNCHANGED <<lastFlushAt, sent, inflight, flushes>>
    ELSE /\ clickBatch' = <<>>
         /\ clickBatchTimer' = timerIfEmpty
         /\ lastFlushAt' = IF clickVariant = "dom_click_stats" THEN now ELSE lastFlushAt
         /\ SendClickBatch(batch, isFinal)

(* _flushClickBatch(isFinal) run on buffer `batch`; timerIfEmpty is what     *)
(* this._clickBatchTimer holds when the early return leaves it untouched   *)
FlushClickBatch(batch, isFinal, timerIfEmpty) ==
    IF batch = <<>>
    THEN /\ clickBatch' = batch
         /\ clickBatchTimer' = timerIfEmpty
         /\ UNCHANGED <<lastFlushAt, sent, inflight, flushes>>
    ELSE /\ clickBatch' = <<>>
         /\ clickBatchTimer' = NoTimer
         /\ lastFlushAt' = IF clickVariant = "dom_click_stats" THEN now ELSE lastFlushAt
         /\ SendClickBatch(batch, isFinal)

(* _enqueueClick that restarts the timer on every click *)
EnqueueClickRestarting(rec) ==
    LET batch == Append(clickBatch, rec)
    IN  IF Len(batch) >= MaxBatchSize
        THEN FlushClickBatch(batch, FALSE, clickBatchTimer)
        ELSE /\ clickBatch' = batch
             /\ clickBatchTimer' = now + FlushInterval
             /\ UNCHANGED <<lastFlushAt, sent, inflight, flushes>>

(* _enqueueClick that pushes a pending timer back by one tick per click *)
EnqueueClickPostponing(rec) ==
    LET batch == Append(clickBatch, rec)
    IN  IF Len(batch) >= MaxBatchSize
        THEN FlushClickBatch(batch, FALSE, clickBatchTimer)
        ELSE /\ clickBatch' = batch
             /\ clickBatchTimer' = IF clickBatchTimer = NoTimer
                                   THEN now + FlushInterval
                                   ELSE clickBatchTimer + 1
             /\ UNCHANGED <<lastFlushAt, sent, inflight, flushes>>

(* _enqueueClick(rec) of the page_click variant *)
EnqueueClick(rec) ==
    LET batch == Append(clickBatch, rec)
    IN  IF Len(batch) >= MaxBatchSize
        THEN FlushClickBatch(batch, FALSE, clickBatchTimer)
        ELSE /\ clickBatch' = batch
             /\ clickBatchTimer' = IF clickBatchTimer = NoTimer
                                   THEN now + FlushInterval
                                   ELSE clickBatchTimer
             /\ UNCHANGED <<lastFlushAt, sent, inflight, flushes>>

(* _enqueueClick(rec, isFrequent) of the dom_click_stats variant *)
EnqueueClickFrequent(rec, isFrequent) ==
    LET batch    == Append(clickBatch, rec)
        interval == IF isFrequent THEN FrequentFlushInterval ELSE FlushInterval
        nextAt   == lastFlushAt + interval
    IN  IF Len(batch) >= MaxBatchSize
        THEN FlushClickBatch(batch, FALSE, clickBatchTimer)
        ELSE /\ clickBatch' = batch
             /\ clickBatchTimer' =
                   IF clickBatchTimer # NoTimer
                   THEN IF now + interval < nextAt
                        THEN now + interval
                        ELSE clickBatchTimer
                   ELSE now + interval
             /\ UNCHANGED <<lastFlushAt, sent, inflight, flushes>>

InitClick ==
    /\ now = StartTime
    /\ getParticipantIdResult \in {"null", "p1"}
    /\ windowParticipantId = "undefined"
    /\ apiClient = "ok"
    /\ sent = <<>>
    /\ inflight = 0
    /\ calls = 0
    /\ dropped = {}
    /\ raised = {}
    /\ clickVariant \in ClickVariants
    /\ clickCfgBatch \in BOOLEAN
    /\ clickBatch = <<>>
    /\ clickBatchTimer = NoTimer
    /\ lastFlushAt = 0
    /\ clicks = 0
    /\ flushes = <<>>
    /\ documentHidden = FALSE
    /\ flushTriggers = <<>>
    /\ EditorsConstructed
    /\ MonitorConstructed
    /\ SeverityConstructed
    /\ IdleConstructed
    /\ AuxConstructed

(* the capture-phase click handler *)
Click ==
    /\ clicks < MaxClicks
    /\ \E hot \in (IF clickVariant = "dom_click_stats" THEN BOOLEAN ELSE {FALSE}) :
          LET rec == [id |-> clicks + 1, hot |-> hot, t |-> now]
          IN  IF clickCfgBatch
              THEN IF clickVariant = "page_click"
                   THEN EnqueueClick(rec)
                   ELSE EnqueueClickFrequent(rec, hot)
              ELSE /\ SendClickBatch(<<rec>>, FALSE)
                   /\ UNCHANGED <<clickBatch, clickBatchTimer, lastFlushAt>>
    /\ clicks' = clicks + 1
    /\ flushTriggers' = IF flushes' # flushes THEN Append(flushTriggers, "click")
                                              ELSE flushTriggers
    /\ UNCHANGED <<now, idVars, logVars, clickVariant, clickCfgBatch, documentHidden>>
    /\ UNCHANGED <<editorLen, debVars, monVars, sevVars, idleVars, auxVars>>

(* setTimeout(() => this._flushClickBatch(), interval) comes due *)
ClickBatchTimerFires ==
    /\ clickBatchTimer >= 0
    /\ now >= clickBatchTimer
    /\ FlushClickBatch(clickBatch, FALSE, StaleTimer)
    /\ flushTriggers' = IF flushes' # flushes THEN Append(flushTriggers, "timer")
                                              ELSE flushTriggers
    /\ UNCHANGED <<now, idVars, logVars, clickVariant, clickCfgBatch, clicks,
                   documentHidden>>
    /\ UNCHANGED <<editorLen, debVars, monVars, sevVars, idleVars, auxVars>>

(* pagehide / beforeunload: flushOnLeave (page_click variant only) *)
PageLeave ==
    /\ clickVariant = "page_click"
    /\ FlushClickBatch(clickBatch, TRUE, clickBatchTimer)
    /\ flushTriggers' = IF flushes' # flushes THEN Append(flushTriggers, "forced")
                                              ELSE flushTriggers
    /\ UNCHANGED <<now, idVars, logVars, clickVariant, clickCfgBatch, clicks,
                   documentHidden>>
    /\ UNCHANGED <<editorLen, debVars, monVars, sevVars, idleVars, auxVars>>

(* visibilitychange: if (document.hidden) this._flushClickBatch(true) *)
ClickVisibilityChange ==
    /\ clickVariant = "page_click"
    /\ documentHidden' = ~documentHidden
    /\ IF documentHidden'
       THEN FlushClickBatch(clickBatch, TRUE, clickBatchTimer)
       ELSE UNCHANGED <<clickBatch, clickBatchTimer, lastFlushAt, sent, inflight,
                        flushes>>
    /\ flushTriggers' = IF flushes' # flushes THEN Append(flushTriggers, "forced")
                                              ELSE flushTriggers
    /\ UNCHANGED <<now, idVars, logVars, clickVariant, clickCfgBatch, clicks>>
    /\ UNCHANGED <<editorLen, debVars, monVars, sevVars, idleVars, auxVars>>

(* the session appears or disappears between handler turns *)
SessionChange ==
    /\ getParticipantIdResult' = IF getParticipantIdResult = "p1" THEN "null" ELSE "p1"
    /\ UNCHANGED <<now, windowParticipantId, apiClient, sent, inflight, logVars,
                   clickVars>>
    /\ UNCHANGED <<editorLen, debVars, monVars, sevVars, idleVars, auxVars>>

NoTimerDue ==
    /\ clickBatchTimer < 0 \/ now < clickBatchTimer
    /\ debTimerId < 0 \/ now < debTimerId
    /\ idleTimer < 0 \/ now < idleTimer
    /\ idleHintTimer < 0 \/ now < idleHintTimer

(* the clock advances, but not past a timer that is due *)
Tick ==
    /\ now < StartTime + (IF trackedEditors # {} THEN MaxEditElapsed
                          ELSE IF idleVariant # "none" THEN MaxIdleElapsed
                          ELSE MaxElapsed)
    /\ NoTimerDue
    /\ now' = now + 1
    /\ UNCHANGED <<idVars, sent, inflight, logVars, clickVars>>
    /\ UNCHANGED <<editorLen, debVars, monVars, sevVars, idleVars, auxVars>>

NextClick ==
    \/ Click
    \/ ClickBatchTimerFires
    \/ PageLeave
    \/ ClickVisibilityChange
    \/ SessionChange
    \/ Tick

SpecClick == InitClick /\ [][NextClick]_vars

(* the click records of a sequence of payloads, in order *)
RECURSIVE ItemsOf(_)
ItemsOf(payloads) ==
    IF payloads = <<>> THEN <<>>
    ELSE Head(payloads).event_data.items \o ItemsOf(Tail(payloads))

(* the click records of a sequence of _sendClickBatch calls, in order *)
RECURSIVE RecordsOf(_)
RecordsOf(fs) ==
    IF fs = <<>> THEN <<>> ELSE Head(fs).items \o RecordsOf(Tail(fs))

AllDelivered == \A i \in DOMAIN flushes : flushes[i].delivered

(* C2: with the identity resolvable at every flush, each click record       *)
(* enqueued in batch mode is in exactly one batch handed to the transport  *)
(* or still in the buffer, and the batches in flush order followed by the  *)
(* buffer are the records in arrival order.                                *)
C2_EveryClickOnceInOrder ==
    (clickCfgBatch /\ AllDelivered) =>
        LET all == ItemsOf(sent) \o clickBatch
        IN  /\ Len(all) = clicks
            /\ \A k \in 1..clicks : all[k].id = k

(* a second batch was enqueued and flushed while the first batch's request  *)
(* was still in flight                                                     *)
C2_Witness ==
    /\ clickCfgBatch
    /\ AllDelivered
    /\ Len(sent) >= 2
    /\ inflight = Len(sent)
    /\ sent[2].event_data.items[1].t >= sent[1].timestamp
    /\ clickBatch # <<>>

(* the timing of the buffer and of the flushes, forced flushes allowed or not *)
FlushTiming(allowForced) ==
    clickCfgBatch =>
        /\ \A i \in DOMAIN flushes :
              LET f == flushes[i]
              IN  /\ Len(f.items) <= MaxBatchSize
                  /\ ~f.items[1].hot =>
                        \/ allowForced /\ f.final
                        \/ f.at = f.items[1].t + FlushInterval
                        \/ /\ Len(f.items) = MaxBatchSize
                           /\ f.at = f.items[MaxBatchSize].t
        /\ clickBatch = <<>> => clickBatchTimer = NoTimer
        /\ (clickBatch # <<>> /\ ~clickBatch[1].hot) =>
              /\ clickBatchTimer = clickBatch[1].t + FlushInterval
              /\ now <= clickBatchTimer

(* more than maxBatchSize non-hot clicks inside one flushInterval, all       *)
(* flushed: two flushes, maxBatchSize records and then the rest at the end *)
(* of the interval that the first remaining record started                 *)
BurstExample ==
    LET recs == RecordsOf(flushes)
    IN  (/\ clickCfgBatch
         /\ clickBatch = <<>>
         /\ clicks > MaxBatchSize
         /\ clicks < 2 * MaxBatchSize
         /\ \A i \in DOMAIN flushes : ~flushes[i].final
         /\ \A k \in DOMAIN recs :
               ~recs[k].hot /\ recs[k].t < recs[1].t + FlushInterval)
        => /\ Len(flushes) = 2
           /\ Len(flushes[1].items) = MaxBatchSize
           /\ Len(flushes[2].items) = clicks - MaxBatchSize
           /\ flushes[2].at = flushes[2].items[1].t + FlushInterval

(* C3 as stated: every flush of a non-hot buffer happens flushInterval after *)
(* the buffer became non-empty, or at once when it holds maxBatchSize.     *)
C3_AsStated == FlushTiming(FALSE) /\ BurstExample

(* C3, amended: a flush of a non-hot buffer happens exactly flushInterval    *)
(* after the buffer became non-empty, unless the buffer reached            *)
(* maxBatchSize first (flushed at once, timer cancelled, next interval     *)
(* timed from the next enqueue) or a forced flush on page hide emptied it. *)
C3_FlushAtIntervalOrSizeOrForced == FlushTiming(TRUE) /\ BurstExample

(* the burst example has happened *)
C3_Witness ==
    /\ clickCfgBatch
    /\ clickVariant = "page_click"
    /\ clickBatch = <<>>
    /\ clicks > MaxBatchSize
    /\ Len(flushes) = 2
    /\ ~flushes[1].final /\ ~flushes[2].final
    /\ Len(flushes[1].items) = MaxBatchSize
    /\ flushes[2].items[1].t < flushes[1].items[1].t + FlushInterval
    /\ flushes[2].at = flushes[2].items[1].t + FlushInterval

(* C4: a hot record enqueued while the slower timer is pending reschedules   *)
(* the timer, so its batch is flushed no later than hotFlushInterval after *)
(* the hot record was enqueued.                                            *)
C4_HotRecordFlushedWithinHotInterval ==
    (clickCfgBatch /\ clickVariant = "dom_click_stats") =>
        /\ \A k \in DOMAIN clickBatch :
              clickBatch[k].hot =>
                 /\ clickBatchTimer >= 0
                 /\ clickBatchTimer <= clickBatch[k].t + FrequentFlushInterval
        /\ \A i \in DOMAIN flushes : \A k \in DOMAIN flushes[i].items :
              flushes[i].items[k].hot =>
                 flushes[i].at <= flushes[i].items[k].t + FrequentFlushInterval

----------------------------------------------------------------------------
(* SpecDebounce: initEditors, one debounced logger shared by the editors *)

(* a debounced call that leaves lastCallTime alone: the report is timed      *)
(* from the first signal of the burst                                      *)
DebouncedCallFromFirst(name, code) ==
    /\ debLastArgs' = <<name, code>>
    /\ debLastCallTime' = IF debTimerId = NoTimer THEN now ELSE debLastCallTime
    /\ debTimerId' = IF debTimerId = NoTimer THEN now + DebounceMs ELSE debTimerId

(* debouncedLog(name, code): lodash debounce(func, wait), trailing edge:     *)
(* lastArgs and lastCallTime are overwritten; a timer is started only when *)
(* none is pending                                                         *)
DebouncedCall(name, code) ==
    /\ debLastArgs' = <<name, code>>
    /\ debLastCallTime' = now
    /\ debTimerId' = IF debTimerId = NoTimer THEN now + DebounceMs ELSE debTimerId

(* the debounced function: logEvent('code_edit', {editorName, newLength})   *)
CodeEditLogged(name, code) ==
    /\ Transmit(LogEventBeacon("code_edit", [editorName |-> name, newLength |-> code]))
    /\ codeEdits' = Append(codeEdits, [at |-> now, after |-> Len(editSignals),
                                       name |-> name, newLength |-> code])

InitDebounce ==
    /\ now = StartTime
    /\ getParticipantIdResult \in {"null", "p1"}
    /\ windowParticipantId = "undefined"
    /\ apiClient = "ok"
    /\ sent = <<>>
    /\ inflight = 0
    /\ calls = 0
    /\ dropped = {}
    /\ raised = {}
    /\ ClickConstructed
    /\ EditorsConstructed
    /\ MonitorConstructed
    /\ SeverityConstructed
    /\ IdleConstructed
    /\ AuxConstructed

(* editors[name].onDidChangeModelContent(() => debouncedLog(name, getValue())) *)
(* after a character was typed into or deleted from editor `name`          *)
EditorChange ==
    /\ Len(editSignals) < MaxSignals
    /\ \E name \in EditorNames :
       \E len \in {editorLen[name] - 1, editorLen[name] + 1} \cap (0..MaxLen) :
          /\ editorLen' = [editorLen EXCEPT ![name] = len]
          /\ DebouncedCall(name, len)
          /\ editSignals' = Append(editSignals, [at |-> now, name |-> name])
    /\ UNCHANGED <<now, idVars, sent, inflight, logVars, clickVars, codeEdits,
                   monVars, sevVars, idleVars, auxVars>>

(* lodash timerExpired: invoke on the trailing edge once wait has passed     *)
(* since the last call, else re-arm for the remaining wait                 *)
DebounceTimerExpired ==
    /\ debTimerId >= 0
    /\ now >= debTimerId
    /\ IF now - debLastCallTime >= DebounceMs
       THEN /\ debTimerId' = NoTimer
            /\ debLastArgs' = <<>>
            /\ IF debLastArgs # <<>>
               THEN CodeEditLogged(debLastArgs[1], debLastArgs[2])
               ELSE UNCHANGED <<sent, inflight, codeEdits>>
       ELSE /\ debTimerId' = now + (DebounceMs - (now - debLastCallTime))
            /\ UNCHANGED <<debLastArgs, sent, inflight, codeEdits>>
    /\ UNCHANGED <<now, idVars, logVars, clickVars, editorLen, debLastCallTime,
                   editSignals, monVars, sevVars, idleVars, auxVars>>

NextDebounce ==
    \/ EditorChange
    \/ DebounceTimerExpired
    \/ SessionChange
    \/ Tick

SpecDebounce == InitDebounce /\ [][NextDebounce]_vars

(* C5: a code_edit report is made exactly quietMs after the last signal of   *)
(* its burst and carries that signal's editor; bursts and reports          *)
(* correspond one to one: no report falls between two signals less than    *)
(* quietMs apart, no signal is reported twice, and a burst whose quiet     *)
(* period has passed has been reported.                                    *)
C5_OneReportPerBurst ==
    /\ \A i \in DOMAIN codeEdits :
          LET e == codeEdits[i]
          IN  /\ e.after >= 1
              /\ e.at = editSignals[e.after].at + DebounceMs
              /\ e.name = editSignals[e.after].name
              /\ i > 1 => codeEdits[i - 1].after < e.after
              /\ e.after < Len(editSignals) =>
                    editSignals[e.after + 1].at - editSignals[e.after].at >= DebounceMs
    /\ LET reported == IF codeEdits = <<>> THEN 0
                       ELSE codeEdits[Len(codeEdits)].after
       IN  reported < Len(editSignals) =>
              /\ debTimerId >= 0
              /\ now <= editSignals[Len(editSignals)].at + DebounceMs
              /\ \A k \in (reported + 1)..(Len(editSignals) - 1) :
                    editSignals[k + 1].at - editSignals[k].at <= DebounceMs

(* a burst of signals at different times on different editors was reported  *)
(* once                                                                    *)
C5_Witness ==
    /\ Len(codeEdits) = 1
    /\ codeEdits[1].after >= 2
    /\ editSignals[1].at < editSignals[2].at
    /\ editSignals[1].name # editSignals[2].name
    /\ Len(sent) = 1
    /\ sent[1].event_type = "code_edit"

----------------------------------------------------------------------------
(* Smart code monitoring: _smartRecordCodeChange and what it calls.         *)
(* An operator that stands for a method returns the values the method      *)
(* leaves behind: the editor state, the two histories, lastHintTime and    *)
(* the payloads handed to the transport, in call order, together with the  *)
(* record it pushed and whether it called _submitSignificantEdits.         *)

Abs(x) == IF x < 0 THEN 0 - x ELSE x

(* seq.slice(-n) *)
LastN(seq, n) ==
    IF Len(seq) <= n THEN seq ELSE SubSeq(seq, Len(seq) - n + 1, Len(seq))

(* a cap that throws away the newest record instead of the oldest *)
CapHistoryDroppingNewest(edits) ==
    IF Len(edits) > MaxHistoryLength THEN SubSeq(edits, 1, Len(edits) - 1) ELSE edits

(* if (significantEdits.length > maxHistoryLength) significantEdits.shift()  *)
CapHistory(edits) ==
    IF Len(edits) > MaxHistoryLength THEN Tail(edits) ELSE edits

(* the severity table of the comment on _calculateProblemSeverity: high from 8 *)
CalculateProblemSeverityAsCommented(consecutiveEdits) ==
    IF consecutiveEdits >= 8 THEN "high"
    ELSE IF consecutiveEdits >= 5 THEN "medium"
    ELSE "low"

CalculateProblemSeverity(consecutiveEdits) ==
    IF consecutiveEdits >= 10 THEN "high"
    ELSE IF consecutiveEdits >= 5 THEN "medium"
    ELSE "low"

(* _submitSignificantEdits *)
SubmitSignificantEdits(edits) ==
    IF edits = <<>> THEN <<>>
    ELSE LET editsToSubmit == LastN(edits, SubmitBatchSize)
         IN  LogEvent("significant_edits",
                      [count |-> Len(editsToSubmit),
                       edits |-> editsToSubmit,
                       timestamp |-> now])

(* _triggerProblemHint, and the page's problemHintNeeded listener, which    *)
(* shows the message (the m-th of _generateHintMessage) and logs it        *)
TriggerProblemHint(editorType, editCount, m) ==
    IF now - lastHintTime < HintCooldown
    THEN [lastHintTime |-> lastHintTime, out |-> <<>>]
    ELSE [lastHintTime |-> now,
          out |-> LogEvent("problem_hint_displayed",
                           [editor |-> editorType,
                            edit_count |-> editCount,
                            message |-> m,
                            timestamp |-> now])]

(* _submitProblemEvent *)
SubmitProblemEvent(problemEvent) ==
    LogEvent("coding_problem",
             [editor |-> problemEvent.editor,
              consecutive_edits |-> problemEvent.consecutiveEdits,
              severity |-> problemEvent.severity,
              timestamp |-> problemEvent.timestamp])

(* _recordProblemEvent *)
RecordProblemEvent(editorType, consecutiveEdits, timestamp, m) ==
    LET problemEvent == [editor |-> editorType,
                         timestamp |-> timestamp,
                         consecutiveEdits |-> consecutiveEdits,
                         severity |-> CalculateProblemSeverity(consecutiveEdits)]
        hint == IF consecutiveEdits >= HintThreshold
                THEN TriggerProblemHint(editorType, consecutiveEdits, m)
                ELSE [lastHintTime |-> lastHintTime, out |-> <<>>]
    IN  [problems |-> Append(problemEvents, problemEvent),
         lastHintTime |-> hint.lastHintTime,
         out |-> hint.out \o SubmitProblemEvent(problemEvent)]

(* a method that records nothing and sends nothing *)
NoEffect(state) ==
    [state |-> state, edits |-> significantEdits, problems |-> problemEvents,
     lastHintTime |-> lastHintTime, out |-> <<>>,
     pushed |-> <<>>, submitted |-> FALSE]

(* the reset of _completeEditCycle without `consecutiveEdits = 0` *)
CycleResetKeepingCount(state) ==
    [state EXCEPT !.isDeleting = FALSE,
                  !.deleteStartTime = 0,
                  !.deleteStartLength = 0]

(* _completeEditCycle: the "重置状态" assignments *)
CycleReset(state) ==
    [state EXCEPT !.isDeleting = FALSE,
                  !.deleteStartTime = 0,
                  !.deleteStartLength = 0,
                  !.consecutiveEdits = 0]

(* a recorded cycle that submits the batch before the problem event *)
RecordedCycleBatchFirst(editorType, state, timestamp, finalLength, m) ==
    LET netChange == finalLength - state.deleteStartLength
        editRecord == [type |-> "edit_cycle",
                       editor |-> editorType,
                       timestamp |-> timestamp,
                       duration |-> timestamp - state.deleteStartTime,
                       netChange |-> netChange,
                       absoluteChange |-> Abs(netChange),
                       startLength |-> state.deleteStartLength,
                       endLength |-> finalLength,
                       consecutiveEdits |-> state.consecutiveEdits]
        edits == CapHistory(Append(significantEdits, editRecord))
        problem == state.consecutiveEdits >= ProblemDetectionThreshold
        recorded == IF problem
                    THEN RecordProblemEvent(editorType, state.consecutiveEdits,
                                            timestamp, m)
                    ELSE [problems |-> problemEvents,
                          lastHintTime |-> lastHintTime,
                          out |-> <<>>]
        submitted == IF Len(edits) >= SubmitBatchSize \/ problem
                     THEN SubmitSignificantEdits(edits)
                     ELSE <<>>
    IN  [state |-> CycleReset(state),
         edits |-> edits,
         problems |-> recorded.problems,
         lastHintTime |-> recorded.lastHintTime,
         out |-> submitted \o recorded.out,
         pushed |-> <<editRecord>>,
         submitted |-> (Len(edits) >= SubmitBatchSize \/ problem)]

(* _completeEditCycle: the body of `if (absoluteChange >= minChangeThreshold)` *)
RecordedCycle(editorType, state, timestamp, finalLength, m) ==
    LET netChange == finalLength - state.deleteStartLength
        editRecord == [type |-> "edit_cycle",
                       editor |-> editorType,
                       timestamp |-> timestamp,
                       duration |-> timestamp - state.deleteStartTime,
                       netChange |-> netChange,
                       absoluteChange |-> Abs(netChange),
                       startLength |-> state.deleteStartLength,
                       endLength |-> finalLength,
                       consecutiveEdits |-> state.consecutiveEdits]
        edits == CapHistory(Append(significantEdits, editRecord))
        problem == state.consecutiveEdits >= ProblemDetectionThreshold
        recorded == IF problem
                    THEN RecordProblemEvent(editorType, state.consecutiveEdits,
                                            timestamp, m)
                    ELSE [problems |-> problemEvents,
                          lastHintTime |-> lastHintTime,
                          out |-> <<>>]
        submitted == IF Len(edits) >= SubmitBatchSize \/ problem
                     THEN SubmitSignificantEdits(edits)
                     ELSE <<>>
    IN  [state |-> CycleReset(state),
         edits |-> edits,
         problems |-> recorded.problems,
         lastHintTime |-> recorded.lastHintTime,
         out |-> recorded.out \o submitted,
         pushed |-> <<editRecord>>,
         submitted |-> (Len(edits) >= SubmitBatchSize \/ problem)]

(* _completeEditCycle recording only changes above the threshold *)
CompleteEditCycleAbove(editorType, state, timestamp, finalLength, m) ==
    IF Abs(finalLength - state.deleteStartLength) > MinChangeThreshold
    THEN RecordedCycle(editorType, state, timestamp, finalLength, m)
    ELSE NoEffect(CycleReset(state))

(* _completeEditCycle *)
CompleteEditCycle(editorType, state, timestamp, finalLength, m) ==
    LET netChange == finalLength - state.deleteStartLength
        absoluteChange == Abs(netChange)
    IN  IF absoluteChange >= MinChangeThreshold
        THEN RecordedCycle(editorType, state, timestamp, finalLength, m)
        ELSE NoEffect(CycleReset(state))

(* _recordMeaningfulEdit without the large addition branch: every record   *)
(* waits for the batch check                                               *)
RecordMeaningfulEditBatchedOnly(editorType, editType, changeAmount, currentLength, timestamp) ==
    LET editRecord == [type |-> editType,
                       editor |-> editorType,
                       timestamp |-> timestamp,
                       changeAmount |-> changeAmount,
                       currentLength |-> currentLength]
        pushed == Append(significantEdits, editRecord)
    IN  [edits |-> CapHistory(pushed),
         out |-> IF Len(pushed) % SubmitBatchSize = 0
                 THEN SubmitSignificantEdits(pushed)
                 ELSE <<>>,
         pushed |-> <<editRecord>>,
         submitted |-> (Len(pushed) % SubmitBatchSize = 0)]

(* _recordMeaningfulEdit: the batch check reads the length before the cap   *)
RecordMeaningfulEdit(editorType, editType, changeAmount, currentLength, timestamp) ==
    LET editRecord == [type |-> editType,
                       editor |-> editorType,
                       timestamp |-> timestamp,
                       changeAmount |-> changeAmount,
                       currentLength |-> currentLength]
        pushed == Append(significantEdits, editRecord)
    IN  [edits |-> CapHistory(pushed),
         out |-> IF changeAmount >= LargeAddition
                 THEN LogEvent("large_addition", editRecord)
                 ELSE IF Len(pushed) % SubmitBatchSize = 0
                      THEN SubmitSignificantEdits(pushed)
                      ELSE <<>>,
         pushed |-> <<editRecord>>,
         submitted |-> (/\ changeAmount < LargeAddition
                        /\ Len(pushed) % SubmitBatchSize = 0)]

(* the last two assignments of _handleAddition, the timestamp taken only    *)
(* when the addition was recorded                                          *)
CountAdditionWhenRecorded(effect, timestamp) ==
    [effect EXCEPT !.state = [@ EXCEPT !.consecutiveEdits = @ + 1,
                                       !.lastMeaningfulEdit =
                                           IF effect.pushed # <<>> THEN timestamp ELSE @]]

(* _handleAddition: the last two assignments *)
CountAddition(effect, timestamp) ==
    [effect EXCEPT !.state = [@ EXCEPT !.consecutiveEdits = @ + 1,
                                       !.lastMeaningfulEdit = timestamp]]

(* _handleAddition without the meaningfulEditTimeout condition *)
HandleAdditionAnyTime(editorType, state, lengthChange, currentLength, timestamp, timeSinceLastEdit, m) ==
    CountAddition(
        IF state.isDeleting
        THEN CompleteEditCycle(editorType, state, timestamp, currentLength, m)
        ELSE IF lengthChange >= MinChangeThreshold
             THEN LET r == RecordMeaningfulEdit(editorType, "addition", lengthChange,
                                                currentLength, timestamp)
                  IN  [NoEffect(state) EXCEPT !.edits = r.edits, !.out = r.out,
                                              !.pushed = r.pushed,
                                              !.submitted = r.submitted]
             ELSE NoEffect(state),
        timestamp)

(* _handleAddition *)
HandleAddition(editorType, state, lengthChange, currentLength, timestamp, timeSinceLastEdit, m) ==
    CountAddition(
        IF state.isDeleting
        THEN CompleteEditCycle(editorType, state, timestamp, currentLength, m)
        ELSE IF /\ lengthChange >= MinChangeThreshold
                /\ timeSinceLastEdit > MeaningfulEditTimeout
             THEN LET r == RecordMeaningfulEdit(editorType, "addition", lengthChange,
                                                currentLength, timestamp)
                  IN  [NoEffect(state) EXCEPT !.edits = r.edits, !.out = r.out,
                                              !.pushed = r.pushed,
                                              !.submitted = r.submitted]
             ELSE NoEffect(state),
        timestamp)

(* a _handleDeletion that counts every deleting signal *)
HandleDeletionCountingEvery(editorType, state, currentLength, timestamp) ==
    IF ~state.isDeleting
    THEN [state EXCEPT !.isDeleting = TRUE,
                       !.deleteStartTime = timestamp,
                       !.deleteStartLength = state.lastLength,
                       !.consecutiveEdits = @ + 1]
    ELSE [state EXCEPT !.consecutiveEdits = @ + 1]

(* _handleDeletion: state.lastLength already holds the current length       *)
HandleDeletion(editorType, state, currentLength, timestamp) ==
    IF ~state.isDeleting
    THEN [state EXCEPT !.isDeleting = TRUE,
                       !.deleteStartTime = timestamp,
                       !.deleteStartLength = state.lastLength,
                       !.consecutiveEdits = @ + 1]
    ELSE state

(* _smartRecordCodeChange(editorType, currentContent)                       *)
SmartRecordCodeChange(editorType, currentLength, m) ==
    LET previousLength == codeMonitorStates[editorType].lastLength
        lengthChange == currentLength - previousLength
        state == [codeMonitorStates[editorType] EXCEPT !.lastLength = currentLength]
        timeSinceLastEdit == now - state.lastMeaningfulEdit
        effect == IF lengthChange < 0
                  THEN NoEffect(HandleDeletion(editorType, state, currentLength, now))
                  ELSE IF lengthChange > 0
                       THEN HandleAddition(editorType, state, lengthChange,
                                           currentLength, now, timeSinceLastEdit, m)
                       ELSE NoEffect(state)
        buffered == [effect.state EXCEPT
                        !.editBuffer = IF @ + 1 > EditBufferCap THEN EditBufferCap
                                       ELSE @ + 1]
    IN  /\ codeMonitorStates' = [codeMonitorStates EXCEPT ![editorType] = buffered]
        /\ significantEdits' = effect.edits
        /\ problemEvents' = effect.problems
        /\ lastHintTime' = effect.lastHintTime
        /\ Transmit(effect.out)
        /\ unsentEdits' = IF effect.submitted THEN <<>>
                          ELSE unsentEdits \o effect.pushed

----------------------------------------------------------------------------
(* SpecEdit: change notifications reach _smartRecordCodeChange.  A run is   *)
(* one of: one tracked editor whose content is emptied and refilled, for   *)
(* up to MaxCycleEdits calls; one tracked editor taking any length, or two *)
(* tracked editors that are empty, hold a threshold's worth of text or are *)
(* full, for up to MaxEdits calls.  resetCodeMonitoring may be called at   *)
(* any point, up to MaxResets times in a row.                              *)

InitEdit ==
    /\ now = StartTime
    /\ getParticipantIdResult \in {"null", "p1"}
    /\ windowParticipantId = "undefined"
    /\ apiClient = "ok"
    /\ sent = <<>>
    /\ inflight = 0
    /\ calls = 0
    /\ dropped = {}
    /\ raised = {}
    /\ ClickConstructed
    /\ editorLen = [e \in EditorNames |-> 0]
    /\ debTimerId = NoTimer
    /\ debLastCallTime = -1
    /\ debLastArgs = <<>>
    /\ editSignals = <<>>
    /\ codeEdits = <<>>
    /\ \/ trackedEditors = {"html"} /\ contentLengths = {0, MaxCodeLen}
       \/ trackedEditors = {"html"} /\ contentLengths = 0..MaxCodeLen
       \/ /\ trackedEditors = {"html", "css"}
          /\ contentLengths = {0, MinChangeThreshold, MaxCodeLen}
    /\ codeMonitorStates = [e \in EditorNames |-> CreateEditorState]
    /\ significantEdits = <<>>
    /\ problemEvents = <<>>
    /\ lastHintTime = 0
    /\ handled = 0
    /\ turn = NoTurn
    /\ cycleRun = [e \in EditorNames |-> 0]
    /\ unsentEdits = <<>>
    /\ SeverityConstructed
    /\ IdleConstructed
    /\ AuxConstructed

EditBudget ==
    IF Cardinality(trackedEditors) = 1 /\ contentLengths = {0, MaxCodeLen}
    THEN MaxCycleEdits ELSE MaxEdits

(* the runs that go on editing after a resetCodeMonitoring call: those of   *)
(* the editor that is emptied and refilled; the other runs end with resets *)
EditsFollowReset == Cardinality(trackedEditors) = 1 /\ contentLengths = {0, MaxCodeLen}

(* editors[editorType].onDidChangeModelContent(() =>                        *)
(*     this._smartRecordCodeChange(editorType, editors[editorType].getValue())) *)
EditSignal ==
    /\ handled < EditBudget
    /\ turn.resets > 0 => EditsFollowReset
    /\ \E editorType \in trackedEditors, len \in contentLengths :
       \E m \in IF codeMonitorStates[editorType].isDeleting
                THEN 1..NumHintMessages ELSE {1} :
          LET state == codeMonitorStates[editorType]
              lengthChange == len - state.lastLength
              completed == state.isDeleting /\ lengthChange > 0
              netChange == len - state.deleteStartLength
          IN  /\ editorLen' = [editorLen EXCEPT ![editorType] = len]
              /\ SmartRecordCodeChange(editorType, len, m)
              /\ turn' = [editor |-> editorType,
                          lengthChange |-> lengthChange,
                          elapsed |-> now - state.lastMeaningfulEdit,
                          completed |-> completed,
                          netChange |-> IF completed THEN netChange ELSE 0,
                          consecutiveEdits |-> state.consecutiveEdits,
                          resets |-> 0, cleared |-> 0, clearedProblems |-> 0]
              /\ cycleRun' =
                    [cycleRun EXCEPT ![editorType] =
                        IF completed
                        THEN IF @ >= 0 /\ Abs(netChange) >= MinChangeThreshold
                             THEN @ + 1 ELSE -1
                        ELSE IF lengthChange > 0
                             THEN IF @ = 0 THEN 0 ELSE -1
                             ELSE @]
    /\ handled' = handled + 1
    /\ UNCHANGED <<now, idVars, logVars, clickVars, debVars, trackedEditors,
                   contentLengths, sevVars, idleVars, auxVars>>

(* a reset that forgets to empty the problem-event list *)
ResetCodeMonitoringKeepingProblems ==
    /\ turn.resets < MaxResets
    /\ UNCHANGED handled
    /\ codeMonitorStates' = [e \in EditorNames |-> CreateEditorState]
    /\ significantEdits' = <<>>
    /\ turn' = [NoTurn EXCEPT !.resets = turn.resets + 1,
                              !.cleared = IF turn.resets = 0
                                          THEN Len(significantEdits) + Len(problemEvents)
                                          ELSE turn.cleared,
                              !.clearedProblems = IF turn.resets = 0
                                                  THEN Len(problemEvents)
                                                  ELSE turn.clearedProblems]
    /\ cycleRun' = [e \in EditorNames |-> 0]
    /\ unsentEdits' = <<>>
    /\ UNCHANGED <<now, idVars, sent, inflight, logVars, clickVars, editorLen, debVars,
                   trackedEditors, contentLengths, lastHintTime, sevVars, idleVars, auxVars>>
    /\ UNCHANGED problemEvents

(* resetCodeMonitoring(); the turn notes how many resets came in a row and  *)
(* how many records the first of them threw away                            *)
ResetCodeMonitoring ==
    /\ turn.resets < MaxResets
    /\ UNCHANGED handled
    /\ codeMonitorStates' = [e \in EditorNames |-> CreateEditorState]
    /\ problemEvents' = <<>>
    /\ significantEdits' = <<>>
    /\ turn' = [NoTurn EXCEPT !.resets = turn.resets + 1,
                              !.cleared = IF turn.resets = 0
                                          THEN Len(significantEdits) + Len(problemEvents)
                                          ELSE turn.cleared,
                              !.clearedProblems = IF turn.resets = 0
                                                  THEN Len(problemEvents)
                                                  ELSE turn.clearedProblems]
    /\ cycleRun' = [e \in EditorNames |-> 0]
    /\ unsentEdits' = <<>>
    /\ UNCHANGED <<now, idVars, sent, inflight, logVars, clickVars, editorLen, debVars,
                   trackedEditors, contentLengths, lastHintTime, sevVars, idleVars, auxVars>>

NextEdit ==
    \/ EditSignal
    \/ ResetCodeMonitoring
    \/ Tick

SpecEdit == InitEdit /\ [][NextEdit]_vars

----------------------------------------------------------------------------
(* SpecSeverity: _calculateProblemSeverity applied to a consecutive edit count *)

InitSeverity ==
    /\ now = StartTime
    /\ getParticipantIdResult = "p1"
    /\ windowParticipantId = "undefined"
    /\ apiClient = "ok"
    /\ sent = <<>>
    /\ inflight = 0
    /\ calls = 0
    /\ dropped = {}
    /\ raised = {}
    /\ ClickConstructed
    /\ EditorsConstructed
    /\ MonitorConstructed
    /\ severityInput \in 0..MaxCount
    /\ severityResult = "none"
    /\ IdleConstructed
    /\ AuxConstructed

CalculateProblemSeverityCall ==
    /\ severityResult = "none"
    /\ severityResult' = CalculateProblemSeverity(severityInput)
    /\ UNCHANGED <<now, idVars, sent, inflight, logVars, clickVars, editorLen, debVars,
                   monVars, severityInput, idleVars, auxVars>>

NextSeverity == CalculateProblemSeverityCall

SpecSeverity == InitSeverity /\ [][NextSeverity]_vars

----------------------------------------------------------------------------
(* Claims about smart code monitoring *)

(* this step is _smartRecordCodeChange handling a notification of editor s *)
SignalOn(s) == handled' = handled + 1 /\ turn'.editor = s

(* the step completes an edit cycle on s: s was deleting and its content grew *)
CycleCompletes(s) ==
    /\ SignalOn(s)
    /\ codeMonitorStates[s].isDeleting
    /\ editorLen'[s] > codeMonitorStates[s].lastLength

(* the step appended exactly one record to the significant-edit history,   *)
(* evicting the oldest record when the history was full                    *)
OneEditRecorded ==
    LET n == Len(significantEdits)
    IN  \/ /\ Len(significantEdits') = n + 1
           /\ SubSeq(significantEdits', 1, n) = significantEdits
        \/ /\ n = MaxHistoryLength
           /\ Len(significantEdits') = n
           /\ SubSeq(significantEdits', 1, n - 1) = Tail(significantEdits)

SeverityTable(n) ==
    IF n < 5 THEN "low" ELSE IF n <= 9 THEN "medium" ELSE "high"

(* C7: whenever an edit cycle completes with consecutiveEdits >=            *)
(* problemDetectionThreshold, exactly one ProblemEvent is emitted, with    *)
(* the severity the table gives for that count.                            *)
C7_ProblemAlwaysEmitted ==
    [][\A s \in EditorNames :
          (/\ CycleCompletes(s)
           /\ codeMonitorStates[s].consecutiveEdits >= ProblemDetectionThreshold)
          => /\ Len(problemEvents') = Len(problemEvents) + 1
             /\ SubSeq(problemEvents', 1, Len(problemEvents)) = problemEvents
             /\ LET p == problemEvents'[Len(problemEvents')]
                IN  /\ p.editor = s
                    /\ p.consecutiveEdits = codeMonitorStates[s].consecutiveEdits
                    /\ p.severity = SeverityTable(p.consecutiveEdits)]_vars

(* C8: after three consecutive delete-then-retype cycles on a freshly reset *)
(* surface, each exceeding the magnitude threshold, the third cycle has    *)
(* reached consecutiveEdits = 3, the history holds exactly 3 edit_cycle    *)
(* records of the surface, and exactly one ProblemEvent exists for it,     *)
(* with severity low, whose coding_problem event was handed over at once.  *)
C8_ThreeCyclesOneLowProblem ==
    \A s \in EditorNames :
       (cycleRun[s] = 3 /\ turn.editor = s /\ turn.completed) =>
          LET cycles == SelectSeq(significantEdits,
                                  LAMBDA r : r.type = "edit_cycle" /\ r.editor = s)
              problems == SelectSeq(problemEvents, LAMBDA p : p.editor = s)
          IN  /\ turn.consecutiveEdits = 3
              /\ Len(cycles) = 3
              /\ Len(problems) = 1
              /\ problems[1].severity = "low"
              /\ Truthy(getParticipantIdResult) =>
                    \E i \in DOMAIN sent :
                       /\ sent[i].event_type = "coding_problem"
                       /\ sent[i].event_data.editor = s
                       /\ sent[i].timestamp = problems[1].timestamp

C10_IdleAdditionRecordedIff ==
    [][\A s \in EditorNames :
          LET lengthChange == editorLen'[s] - codeMonitorStates[s].lastLength
          IN  (SignalOn(s) /\ ~codeMonitorStates[s].isDeleting /\ lengthChange > 0) =>
                 IF /\ lengthChange >= MinChangeThreshold
                    /\ now - codeMonitorStates[s].lastMeaningfulEdit
                          > MeaningfulEditTimeout
                 THEN /\ OneEditRecorded
                      /\ LET r == significantEdits'[Len(significantEdits')]
                         IN  /\ r.type = "addition"
                             /\ r.editor = s
                             /\ r.changeAmount = lengthChange
                             /\ r.timestamp = now
                 ELSE significantEdits' = significantEdits]_vars

(* a second addition on a surface, made long enough after the first, was    *)
(* recorded                                                                *)
C10_Witness ==
    /\ ~turn.completed
    /\ turn.lengthChange >= MinChangeThreshold
    /\ turn.elapsed > MeaningfulEditTimeout
    /\ turn.elapsed < StartTime
    /\ significantEdits # <<>>
    /\ LET r == significantEdits[Len(significantEdits)]
       IN  /\ r.type = "addition"
           /\ r.editor = turn.editor
           /\ r.changeAmount = turn.lengthChange

(* a record that _recordMeaningfulEdit delivers on its own as large_addition *)
IsLargeAddition(r) == r.type = "addition" /\ r.changeAmount >= LargeAddition

(* C11: whenever the significant edits recorded since the last              *)
(* significant_edits submission number a full batch (5), they are          *)
(* submitted in that same turn, so a full batch of unsubmitted records     *)
(* never remains; additions delivered on their own as large_addition are   *)
(* not counted.  This holds also once the history is at capacity.          *)
C11_FullBatchSubmitted ==
    Truthy(getParticipantIdResult) =>
       Len(SelectSeq(unsentEdits, LAMBDA r : ~IsLargeAddition(r))) < SubmitBatchSize

(* the step records an addition of at least the large size on s *)
LargeAdditionOn(s) ==
    /\ SignalOn(s)
    /\ ~codeMonitorStates[s].isDeleting
    /\ editorLen'[s] - codeMonitorStates[s].lastLength >= LargeAddition
    /\ editorLen'[s] - codeMonitorStates[s].lastLength >= MinChangeThreshold
    /\ now - codeMonitorStates[s].lastMeaningfulEdit > MeaningfulEditTimeout

----------------------------------------------------------------------------
(* SpecIdle: idle sessions, the idle hint and page focus changes *)

IdleVariants == {"idle_session", "fixed_timeout"}

Max(a, b) == IF a >= b THEN a ELSE b

(* computeHintDelay(): delayAfterIdleMs when it is a number, otherwise      *)
(* hintAfterMs read as the total time since the last activity              *)
ComputeHintDelay(cfg, idleMs) ==
    IF cfg.delayAfterIdleMs # Undefined
    THEN Max(0, cfg.delayAfterIdleMs)
    ELSE LET total == IF cfg.hintAfterMs # Undefined THEN cfg.hintAfterMs ELSE idleMs
         IN  Max(0, total - idleMs)

(* scheduleIdleAndHint(): both timers are cleared, the idle timer restarts  *)
ScheduleIdleAndHint ==
    /\ lastActivityTs' = now
    /\ idleTimer' = now + IdleThreshold
    /\ idleHintTimer' = NoTimer

(* the user_idle record built by onActivity and by the pagehide listener    *)
UserIdleEvent(src, hidden) ==
    LogEvent("user_idle",
             [duration_ms     |-> now - idleStartTs,
              timestamp_start |-> idleStartTs,
              timestamp_end   |-> now,
              was_focused     |-> ~hidden,
              trigger_source  |-> src])

(* onActivity that reports the idle interval but leaves the session open    *)
OnActivityKeepSession(src, hidden) ==
    /\ IF idleStartTs # NoIdleStart
       THEN Transmit(UserIdleEvent(src, hidden))
       ELSE UNCHANGED <<sent, inflight>>
    /\ ScheduleIdleAndHint
    /\ UNCHANGED <<idleStartTs, idleHintConfig, idleMsgIdx, idleEpisode, hintsShown>>

(* onActivity(src) *)
OnActivity(src, hidden) ==
    /\ IF idleStartTs # NoIdleStart
       THEN /\ Transmit(UserIdleEvent(src, hidden))
            /\ idleStartTs' = NoIdleStart
       ELSE UNCHANGED <<sent, inflight, idleStartTs>>
    /\ ScheduleIdleAndHint
    /\ UNCHANGED <<idleHintConfig, idleMsgIdx, idleEpisode, hintsShown>>

(* resetIdle() of the fixed-timeout variant *)
ResetIdle ==
    /\ idleTimer' = now + IdleThreshold
    /\ UNCHANGED <<idleHintTimer, lastActivityTs, idleStartTs, idleHintConfig,
                   idleMsgIdx, idleEpisode, hintsShown>>

(* the pagehide listener without the `_idleStartTs = null` assignment       *)
OnPageHideKeepSession ==
    /\ IF idleStartTs # NoIdleStart
       THEN Transmit(UserIdleEvent("pagehide", documentHidden))
       ELSE UNCHANGED <<sent, inflight>>
    /\ UNCHANGED <<idleStartTs, idleTimer, idleHintTimer, lastActivityTs, idleHintConfig,
                   idleMsgIdx, idleEpisode, hintsShown>>

(* the pagehide listener: the timers are left as they are *)
OnPageHide ==
    /\ IF idleStartTs # NoIdleStart
       THEN /\ Transmit(UserIdleEvent("pagehide", documentHidden))
            /\ idleStartTs' = NoIdleStart
       ELSE UNCHANGED <<sent, inflight, idleStartTs>>
    /\ UNCHANGED <<idleTimer, idleHintTimer, lastActivityTs, idleHintConfig,
                   idleMsgIdx, idleEpisode, hintsShown>>

(* what _maybeShowIdleHint emits once it has decided to show message idx:   *)
(* the problemHintNeeded dispatch, logged by the page's listener as        *)
(* problem_hint_displayed, then its own idle_hint_displayed                *)
ShowIdleHint(idx) ==
    LET idleStart == IF idleStartTs # NoIdleStart THEN idleStartTs ELSE lastActivityTs
    IN  /\ idleMsgIdx' = idx + 1
        /\ idleHintConfig' = [idleHintConfig EXCEPT !.lastHintTs = now]
        /\ hintsShown' = Append(hintsShown,
                                [at |-> now, message |-> idx, episode |-> idleEpisode,
                                 lastActivity |-> lastActivityTs])
        /\ Transmit(LogEvent("problem_hint_displayed",
                             [editor |-> "idle", edit_count |-> 0, message |-> idx,
                              timestamp |-> now])
                    \o LogEvent("idle_hint_displayed",
                                [message |-> idx, idle_ms |-> Max(0, now - idleStart),
                                 timestamp |-> now]))

(* _maybeShowIdleHint that still holds back when exactly cooldownMs passed  *)
MaybeShowIdleHintStrictCooldown ==
    IF now - idleHintConfig.lastHintTs <= idleHintConfig.cooldownMs
    THEN UNCHANGED <<sent, inflight, idleMsgIdx, idleHintConfig, hintsShown>>
    ELSE ShowIdleHint(idleMsgIdx % NumIdleMessages)

(* _maybeShowIdleHint without the cooldown test *)
MaybeShowIdleHintNoCooldown ==
    ShowIdleHint(idleMsgIdx % NumIdleMessages)

(* _maybeShowIdleHint() *)
MaybeShowIdleHint ==
    IF now - idleHintConfig.lastHintTs < idleHintConfig.cooldownMs
    THEN UNCHANGED <<sent, inflight, idleMsgIdx, idleHintConfig, hintsShown>>
    ELSE ShowIdleHint(idleMsgIdx % NumIdleMessages)

(* the page hands the tracker its configuration and initIdleAndFocus runs:  *)
(* the listeners are bound and scheduleIdleAndHint() starts the idle timer *)
InitIdle ==
    /\ now = StartTime
    /\ getParticipantIdResult \in {"null", "p1"}
    /\ windowParticipantId = "undefined"
    /\ apiClient = "ok"
    /\ sent = <<>>
    /\ inflight = 0
    /\ calls = 0
    /\ dropped = {}
    /\ raised = {}
    /\ ClickConstructed
    /\ EditorsConstructed
    /\ MonitorConstructed
    /\ SeverityConstructed
    /\ AuxConstructed
    /\ idleVariant \in IdleVariants
    /\ \E h \in {HintAfterMs, IdleThreshold + HintDelay},
          d \in {Undefined, 0, HintDelay},
          c \in {0, CooldownMs} :
          /\ idleVariant = "fixed_timeout" => (h = HintAfterMs /\ d = Undefined /\ c = CooldownMs)
          /\ d # Undefined => h = HintAfterMs
          /\ idleHintConfig = [DefaultIdleHintConfig EXCEPT !.hintAfterMs = h,
                                                            !.delayAfterIdleMs = d,
                                                            !.cooldownMs = c]
    /\ idleTimer = StartTime + IdleThreshold
    /\ idleHintTimer = NoTimer
    /\ lastActivityTs = StartTime
    /\ idleStartTs = NoIdleStart
    /\ idleMsgIdx = 0
    /\ idleSignals = 0
    /\ idleTurn = "none"
    /\ idleEpisode = 0
    /\ hintsShown = <<>>

(* one of the activity events (keydown, input, click, ...) *)
IdleActivity ==
    /\ idleVariant # "none"
    /\ idleSignals < MaxIdleSignals
    /\ IF idleVariant = "idle_session"
       THEN OnActivity("keydown", documentHidden)
       ELSE ResetIdle /\ UNCHANGED <<sent, inflight>>
    /\ idleSignals' = idleSignals + 1
    /\ idleTurn' = "activity"
    /\ UNCHANGED <<now, idVars, logVars, clickVars, editorLen, debVars, monVars, sevVars, auxVars,
                   idleVariant>>

(* visibilitychange: the tab is hidden or shown again *)
IdleVisibilityChange ==
    /\ idleVariant # "none"
    /\ idleSignals < MaxIdleSignals
    /\ documentHidden' = ~documentHidden
    /\ IF idleVariant = "idle_session"
       THEN IF ~documentHidden'
            THEN OnActivity("visibility", documentHidden')
            ELSE UNCHANGED <<sent, inflight, idleTimer, idleHintTimer, lastActivityTs,
                             idleStartTs, idleHintConfig, idleMsgIdx, idleEpisode,
                             hintsShown>>
       ELSE /\ Transmit(LogEvent("page_focus_change",
                                 [status |-> IF documentHidden' THEN "blur" ELSE "focus"]))
            /\ IF ~documentHidden'
               THEN ResetIdle
               ELSE UNCHANGED <<idleTimer, idleHintTimer, lastActivityTs, idleStartTs,
                                idleHintConfig, idleMsgIdx, idleEpisode, hintsShown>>
    /\ idleSignals' = idleSignals + 1
    /\ idleTurn' = "visibility"
    /\ UNCHANGED <<now, idVars, logVars, clickVariant, clickCfgBatch, clickBatch,
                   clickBatchTimer, lastFlushAt, clicks, flushes, flushTriggers>>
    /\ UNCHANGED <<editorLen, debVars, monVars, sevVars, auxVars, idleVariant>>

(* pagehide *)
IdlePageHide ==
    /\ idleVariant = "idle_session"
    /\ idleSignals < MaxIdleSignals
    /\ OnPageHide
    /\ idleSignals' = idleSignals + 1
    /\ idleTurn' = "pagehide"
    /\ UNCHANGED <<now, idVars, logVars, clickVars, editorLen, debVars, monVars, sevVars, auxVars,
                   idleVariant>>

(* the idle timer callback with the hint delay counted from the last activity *)
IdleTimerFiresDelayFromActivity ==
    /\ idleVariant = "idle_session"
    /\ idleTimer >= 0
    /\ now >= idleTimer
    /\ idleStartTs' = IF idleStartTs = NoIdleStart THEN lastActivityTs ELSE idleStartTs
    /\ idleEpisode' = IF idleStartTs = NoIdleStart THEN idleEpisode + 1 ELSE idleEpisode
    /\ idleHintTimer' = Max(now, lastActivityTs + ComputeHintDelay(idleHintConfig, IdleThreshold))
    /\ idleTimer' = StaleTimer
    /\ idleTurn' = "idle_timer"
    /\ UNCHANGED <<now, idVars, sent, inflight, logVars, clickVars, editorLen, debVars,
                   monVars, sevVars, auxVars>>
    /\ UNCHANGED <<idleVariant, idleHintConfig, lastActivityTs, idleMsgIdx, idleSignals,
                   hintsShown>>

(* the idle timer callback that dates the idle session from its own run *)
IdleTimerFiresStartAtExpiry ==
    /\ idleVariant = "idle_session"
    /\ idleTimer >= 0
    /\ now >= idleTimer
    /\ idleStartTs' = IF idleStartTs = NoIdleStart THEN now ELSE idleStartTs
    /\ idleEpisode' = IF idleStartTs = NoIdleStart THEN idleEpisode + 1 ELSE idleEpisode
    /\ idleHintTimer' = now + ComputeHintDelay(idleHintConfig, IdleThreshold)
    /\ idleTimer' = StaleTimer
    /\ idleTurn' = "idle_timer"
    /\ UNCHANGED <<now, idVars, sent, inflight, logVars, clickVars, editorLen, debVars,
                   monVars, sevVars, auxVars>>
    /\ UNCHANGED <<idleVariant, idleHintConfig, lastActivityTs, idleMsgIdx, idleSignals,
                   hintsShown>>

(* the idle timer callback: the idle session opens, dated from the last     *)
(* activity, and only now the hint timer starts                            *)
IdleTimerFires ==
    /\ idleVariant = "idle_session"
    /\ idleTimer >= 0
    /\ now >= idleTimer
    /\ idleStartTs' = IF idleStartTs = NoIdleStart THEN lastActivityTs ELSE idleStartTs
    /\ idleEpisode' = IF idleStartTs = NoIdleStart THEN idleEpisode + 1 ELSE idleEpisode
    /\ idleHintTimer' = now + ComputeHintDelay(idleHintConfig, IdleThreshold)
    /\ idleTimer' = StaleTimer
    /\ idleTurn' = "idle_timer"
    /\ UNCHANGED <<now, idVars, sent, inflight, logVars, clickVars, editorLen, debVars,
                   monVars, sevVars, auxVars>>
    /\ UNCHANGED <<idleVariant, idleHintConfig, lastActivityTs, idleMsgIdx, idleSignals,
                   hintsShown>>

(* the hint timer callback: if (this._idleStartTs != null) _maybeShowIdleHint() *)
IdleHintTimerFires ==
    /\ idleVariant = "idle_session"
    /\ idleHintTimer >= 0
    /\ now >= idleHintTimer
    /\ IF idleStartTs # NoIdleStart
       THEN MaybeShowIdleHint
       ELSE UNCHANGED <<sent, inflight, idleMsgIdx, idleHintConfig, hintsShown>>
    /\ idleHintTimer' = StaleTimer
    /\ idleTurn' = "hint_timer"
    /\ UNCHANGED <<now, idVars, logVars, clickVars, editorLen, debVars, monVars, sevVars, auxVars>>
    /\ UNCHANGED <<idleVariant, idleTimer, lastActivityTs, idleStartTs, idleSignals,
                   idleEpisode>>

(* the idle timer callback of the fixed-timeout variant *)
FixedIdleTimerFires ==
    /\ idleVariant = "fixed_timeout"
    /\ idleTimer >= 0
    /\ now >= idleTimer
    /\ Transmit(LogEvent("user_idle", [duration_ms |-> IdleThreshold]))
    /\ idleTimer' = StaleTimer
    /\ idleTurn' = "idle_timer"
    /\ UNCHANGED <<now, idVars, logVars, clickVars, editorLen, debVars, monVars, sevVars, auxVars>>
    /\ UNCHANGED <<idleVariant, idleHintConfig, idleHintTimer, lastActivityTs, idleStartTs,
                   idleMsgIdx, idleSignals, idleEpisode, hintsShown>>

NextIdle ==
    \/ IdleActivity
    \/ IdleVisibilityChange
    \/ IdlePageHide
    \/ IdleTimerFires
    \/ IdleHintTimerFires
    \/ FixedIdleTimerFires
    \/ Tick

SpecIdle == InitIdle /\ [][NextIdle]_vars

----------------------------------------------------------------------------
(* Idle tracking: properties of the idle-session variant *)

(* this step is one of the activity listeners running (the visibilitychange *)
(* listener counts when the page becomes visible)                          *)
ActivityStep ==
    /\ idleVariant = "idle_session"
    /\ idleSignals' = idleSignals + 1
    /\ \/ idleTurn' = "activity"
       \/ idleTurn' = "visibility" /\ ~documentHidden'

(* the user_idle payload that closes the open session in this step *)
ClosingUserIdle(src) ==
    [participant_id |-> getParticipantIdResult,
     event_type     |-> "user_idle",
     event_data     |-> [duration_ms     |-> now - idleStartTs,
                         timestamp_start |-> idleStartTs,
                         timestamp_end   |-> now,
                         was_focused     |-> ~documentHidden',
                         trigger_source  |-> src],
     timestamp      |-> now]

(* C13: an activity signal that finds an idle session open sends exactly    *)
(* one user_idle event, closes the session and restarts the idle timer     *)
(* from that moment; an activity signal that arrives before the idle       *)
(* threshold has elapsed since the previous activity finds no session open *)
(* and sends no user_idle event.                                           *)
C13_ActivityClosesIdleSession ==
    /\ [][(ActivityStep /\ Truthy(getParticipantIdResult)) =>
            /\ idleStartTs' = NoIdleStart
            /\ idleTimer' = now + IdleThreshold
            /\ lastActivityTs' = now
            /\ IF idleStartTs # NoIdleStart
               THEN \E src \in {"keydown", "visibility"} :
                       sent' = Append(sent, ClosingUserIdle(src))
               ELSE sent' = sent]_vars
    /\ [](idleVariant = "idle_session" /\ now - lastActivityTs < IdleThreshold
             => idleStartTs = NoIdleStart)

(* an activity signal has just closed an idle session that lasted longer    *)
(* than the threshold, and an earlier one arrived before the threshold     *)
C13_Witness ==
    /\ idleVariant = "idle_session"
    /\ idleTurn = "activity"
    /\ idleSignals >= 2
    /\ idleStartTs = NoIdleStart
    /\ idleTimer = now + IdleThreshold
    /\ Len(sent) = 1
    /\ sent[1].event_type = "user_idle"
    /\ sent[1].event_data.trigger_source = "keydown"
    /\ sent[1].event_data.duration_ms > IdleThreshold
    /\ sent[1].event_data.timestamp_start > StartTime

(* when the hint of the current activity window is due: idleThreshold after *)
(* the last activity the session opens, the hint delay after that it fires *)
HintDue == lastActivityTs + IdleThreshold + ComputeHintDelay(idleHintConfig, IdleThreshold)

(* the hint timer of the current window has run: no activity came for the   *)
(* idle threshold and then for the hint delay                              *)
HintTimerRan == idleVariant = "idle_session" /\ idleHintTimer = StaleTimer

(* hints dispatched for the current window *)
HintsOfWindow == {i \in 1..Len(hintsShown) : hintsShown[i].lastActivity = lastActivityTs}

(* every hint of an earlier window lies at least cooldownMs before HintDue  *)
CooldownElapsedAtHintDue ==
    \A i \in 1..Len(hintsShown) :
        hintsShown[i].lastActivity # lastActivityTs
           => HintDue - hintsShown[i].at >= idleHintConfig.cooldownMs

(* exactly one hint was dispatched for the current window, at HintDue, and  *)
(* with a participant id exactly one idle_hint_displayed event was sent    *)
OneHintForWindow ==
    /\ Cardinality(HintsOfWindow) = 1
    /\ \A i \in HintsOfWindow : hintsShown[i].at = HintDue
    /\ Truthy(getParticipantIdResult) =>
          Cardinality({k \in 1..Len(sent) :
                          /\ sent[k].event_type = "idle_hint_displayed"
                          /\ sent[k].timestamp = HintDue}) = 1

HintTimerStep == idleHintTimer >= 0 /\ idleHintTimer' = StaleTimer

IdleTimerStep == idleVariant = "idle_session" /\ idleTimer >= 0 /\ idleTimer' = StaleTimer

PageHideStep == idleSignals' = idleSignals + 1 /\ idleTurn' = "pagehide"

(* the user_idle payloads sent so far *)
UserIdleSent == {k \in 1..Len(sent) : sent[k].event_type = "user_idle"}

(* C17: pagehide with an idle session open sends the closing user_idle      *)
(* event at once and clears the session; pagehide with no session open     *)
(* sends nothing; no idle session is reported twice, so an activity after  *)
(* the pagehide sends no second user_idle event for it.                    *)
C17_PageHideClosesIdleSession ==
    /\ [][(PageHideStep /\ Truthy(getParticipantIdResult)) =>
             /\ idleStartTs' = NoIdleStart
             /\ IF idleStartTs # NoIdleStart
                THEN sent' = Append(sent, ClosingUserIdle("pagehide"))
                ELSE sent' = sent]_vars
    /\ [](idleVariant = "idle_session" =>
             \A j, k \in UserIdleSent :
                 j # k => sent[j].event_data.timestamp_start
                             # sent[k].event_data.timestamp_start)

(* an idle session was closed by pagehide and an activity signal came       *)
(* later: the only user_idle event is the one of the pagehide              *)
C17_Witness ==
    /\ idleVariant = "idle_session"
    /\ idleTurn = "activity"
    /\ Cardinality(UserIdleSent) = 1
    /\ sent[Len(sent)].event_type = "user_idle"
    /\ sent[Len(sent)].event_data.trigger_source = "pagehide"
    /\ sent[Len(sent)].timestamp < now
    /\ idleEpisode = 1
    /\ lastActivityTs = now

(* this step is a visibilitychange: the page becomes hidden or visible *)
VisibilityStep == idleVariant # "none" /\ documentHidden' # documentHidden

(* C18: every visibility transition, to hidden or to visible, sends a       *)
(* page_focus_change event, whether or not an idle session is open.        *)
C18_FocusChangeLogged ==
    [][(VisibilityStep /\ Truthy(getParticipantIdResult)) =>
          \E k \in (Len(sent) + 1)..Len(sent') :
              sent'[k].event_type = "page_focus_change"]_vars

(* the same, for the fixed-timeout variant of initIdleAndFocus only *)
FocusChangeLoggedByFixedTimeoutVariant ==
    [][(VisibilityStep /\ idleVariant = "fixed_timeout" /\ Truthy(getParticipantIdResult)) =>
          sent' = Append(sent, [participant_id |-> getParticipantIdResult,
                                event_type     |-> "page_focus_change",
                                event_data     |-> [status |-> IF documentHidden'
                                                               THEN "blur" ELSE "focus"],
                                timestamp      |-> now])]_vars

----------------------------------------------------------------------------
(* Click batching: the final flag of a flushed batch *)

(* C19: in the page_click variant a batch flushed by pagehide, beforeunload *)
(* or the page becoming hidden is sent with final: true, a batch flushed   *)
(* by the timer or by reaching maxBatchSize with final: false; no empty    *)
(* batch is ever sent, and of two forced flushes in a row the second       *)
(* carries only clicks made after the first.                               *)
C19_FinalMarksForcedFlush ==
    clickVariant = "page_click" =>
        /\ Len(flushTriggers) = Len(flushes)
        /\ \A i \in DOMAIN flushes :
              /\ flushes[i].final <=> flushTriggers[i] = "forced"
              /\ flushes[i].items # <<>>
        /\ AllDelivered =>
              /\ Len(sent) = Len(flushes)
              /\ \A i \in DOMAIN flushes :
                    /\ sent[i].event_data.final = (flushTriggers[i] = "forced")
                    /\ sent[i].event_data.items = flushes[i].items
        /\ \A i \in DOMAIN flushes :
              (i > 1 /\ flushTriggers[i - 1] = "forced"
                     /\ flushTriggers[i] = "forced")
                 => \A k \in DOMAIN flushes[i].items :
                       /\ flushes[i].items[k].t >= flushes[i - 1].at
                       /\ flushes[i].items[k].id >
                             flushes[i - 1].items[Len(flushes[i - 1].items)].id

(* a timer flush and two forced flushes in a row were sent, the last one   *)
(* when the page became hidden                                             *)
C19_Witness ==
    /\ clickVariant = "page_click"
    /\ clickCfgBatch
    /\ AllDelivered
    /\ Len(sent) = 3
    /\ flushTriggers = <<"timer", "forced", "forced">>
    /\ documentHidden
    /\ \E i \in DOMAIN sent : sent[i].event_data.final
    /\ \E i \in DOMAIN sent : ~sent[i].event_data.final
    /\ clickBatch = <<>>
    /\ clicks = 3

----------------------------------------------------------------------------
(* logEvent and a failing transport *)

(* C20: no logEvent call raises to its caller, whether the transport is     *)
(* missing, throws when called, or fails after the call returned.          *)
C20_LogEventNeverRaises == raised = {}

----------------------------------------------------------------------------
(* C21: delivery is at-most-once. Every transport invocation belongs to a   *)
(* different logEvent call that resolved an identity, so the invocations    *)
(* never outnumber those calls; one call hands at most one payload to the   *)
(* transport, and a request that settles (resolved or rejected into         *)
(* .catch) sends nothing again.                                             *)
C21_AtMostOnce ==
    /\ [](/\ Len(sent) <= calls - Cardinality(dropped)
          /\ \A i, j \in DOMAIN sent :
                sent[i].event_data.id = sent[j].event_data.id => i = j
          /\ \A i \in DOMAIN sent :
                /\ sent[i].event_data.id \in 1..calls
                /\ sent[i].event_data.id \notin dropped)
    /\ [][sent' # sent => calls' = calls + 1 /\ Len(sent') = Len(sent) + 1]_vars
    /\ [][inflight' < inflight => sent' = sent /\ calls' = calls]_vars

(* three calls reached the transport, one was dropped, every request settled *)
C21_Witness ==
    /\ calls = MaxCalls
    /\ Len(sent) = MaxCalls - 1
    /\ Cardinality(dropped) = 1
    /\ inflight = 0
    /\ raised = {}

----------------------------------------------------------------------------
(* SpecSend: the three _sendPayload variants of the repository, behind     *)
(* init (endpoint resolution) and logEvent                                 *)

SendVariants == {"api_client", "beacon_or_fetch", "beacon_or_fetch_omit"}

(* characters of a base URL: a slash and any other character *)
BaseChars == {"h", "/"}

RECURSIVE SeqsUpTo(_, _)
SeqsUpTo(S, n) ==
    IF n = 0 THEN {<<>>}
    ELSE LET shorter == SeqsUpTo(S, n - 1)
         IN  shorter \cup {Append(s, c) : s \in shorter, c \in S}

(* window.__API_BASE__ and meta[name="api-base"].content: undefined or a string *)
BaseValues ==
    {[kind |-> "undefined", chars |-> <<>>]}
        \cup {[kind |-> "string", chars |-> s] : s \in SeqsUpTo(BaseChars, MaxBaseLen)}

(* config.endpoint: undefined, a string, or a truthy value that is no string *)
ConfigEndpoints == BaseValues \cup {[kind |-> "object", chars |-> <<"obj">>]}

(* JavaScript truthiness of such a value *)
TruthyValue(v) == v.kind = "object" \/ (v.kind = "string" /\ v.chars # <<>>)

(* String(base).replace(/\/$/, '') *)
StripTrailingSlash(s) ==
    IF Len(s) > 0 /\ s[Len(s)] = "/" THEN SubSeq(s, 1, Len(s) - 1) ELSE s

(* a resolution that asks the meta declaration before the global override *)
ResolveBehaviorEndpointMetaFirst(cfg, global, meta) ==
    IF TruthyValue(cfg) /\ cfg.kind = "string" THEN cfg.chars
    ELSE IF TruthyValue(meta) THEN StripTrailingSlash(meta.chars) \o DefaultPath
    ELSE IF TruthyValue(global) THEN StripTrailingSlash(global.chars) \o DefaultPath
    ELSE DefaultPath

ResolveBehaviorEndpoint(cfg, global, meta) ==
    IF TruthyValue(cfg) /\ cfg.kind = "string" THEN cfg.chars
    ELSE IF TruthyValue(global) THEN StripTrailingSlash(global.chars) \o DefaultPath
    ELSE IF TruthyValue(meta) THEN StripTrailingSlash(meta.chars) \o DefaultPath
    ELSE DefaultPath

(* '/behavior/log', the path handed to window.apiClient.postWithoutAuth *)
ApiClientPath == <<"/behavior/log">>

(* one request as the transport sees it *)
WireRecord(transport, url, keepalive, credentials, payload) ==
    [transport |-> transport, url |-> url, keepalive |-> keepalive,
     credentials |-> credentials, payload |-> payload]

(* window.apiClient.postWithoutAuth: what the client does with the request *)
(* is the client's business, the tracker sets no option                     *)
SendPayloadApiClient(payload) ==
    IF apiClient = "missing" THEN <<>>
    ELSE <<WireRecord("api_client", ApiClientPath, "unspecified", "unspecified", payload)>>

(* sendBeacon if it is a function, else fetch with keepalive and no          *)
(* credentials option, to the hard-coded path                               *)
SendPayloadBeaconOrFetch(payload) ==
    IF beaconAvailable
    THEN <<WireRecord("beacon", DefaultPath, "unset", "unset", payload)>>
    ELSE <<WireRecord("fetch", DefaultPath, "true", "unset", payload)>>

(* sendBeacon if it is a function, else fetch with keepalive and             *)
(* credentials: 'omit', to this._endpoint                                   *)
SendPayloadBeaconOrFetchOmit(payload) ==
    IF beaconAvailable
    THEN <<WireRecord("beacon", endpoint, "unset", "unset", payload)>>
    ELSE <<WireRecord("fetch", endpoint, "true", "omit", payload)>>

SendPayloadWire(payload) ==
    CASE sendVariant = "api_client" -> SendPayloadApiClient(payload)
      [] sendVariant = "beacon_or_fetch" -> SendPayloadBeaconOrFetch(payload)
      [] sendVariant = "beacon_or_fetch_omit" -> SendPayloadBeaconOrFetchOmit(payload)

InitSend ==
    /\ now = StartTime
    /\ getParticipantIdResult \in {"p1", "null"}
    /\ windowParticipantId = "undefined"
    /\ sent = <<>>
    /\ inflight = 0
    /\ calls = 0
    /\ dropped = {}
    /\ raised = {}
    /\ ClickConstructed
    /\ EditorsConstructed
    /\ MonitorConstructed
    /\ SeverityConstructed
    /\ IdleConstructed
    /\ InitConstructed
    /\ RecordConstructed
    /\ sendVariant \in SendVariants
    /\ beaconAvailable \in BOOLEAN
    /\ apiClient \in (IF sendVariant = "api_client" THEN {"ok", "missing"} ELSE {"ok"})
    /\ configEndpoint \in (IF sendVariant = "beacon_or_fetch_omit" THEN ConfigEndpoints ELSE {NoEndpoint})
    /\ globalApiBase \in (IF sendVariant = "beacon_or_fetch_omit" THEN BaseValues ELSE {NoEndpoint})
    /\ metaApiBase \in (IF sendVariant = "beacon_or_fetch_omit" THEN BaseValues ELSE {NoEndpoint})
    /\ endpoint = DefaultPath
    /\ endpointResolved = FALSE
    /\ wire = <<>>
    /\ sendCalls = 0

(* init(config): this._endpoint = resolveBehaviorEndpoint(config.endpoint); *)
(* the other two variants keep no endpoint                                  *)
TrackerInit ==
    /\ ~endpointResolved
    /\ endpointResolved' = TRUE
    /\ endpoint' = IF sendVariant = "beacon_or_fetch_omit"
                   THEN ResolveBehaviorEndpoint(configEndpoint, globalApiBase, metaApiBase)
                   ELSE endpoint
    /\ UNCHANGED <<sendVariant, beaconAvailable, configEndpoint, globalApiBase, metaApiBase, wire, sendCalls>>
    /\ UNCHANGED <<now, idVars, sent, inflight, logVars, clickVars, editorLen, debVars, monVars, sevVars, idleVars, initVars, recordVars>>

(* logEvent(eventType, eventData) down to the transport *)
SendLogEvent ==
    /\ sendCalls < MaxSendCalls
    /\ sendCalls' = sendCalls + 1
    /\ LET participant_id == ResolveParticipantId(getParticipantIdResult, windowParticipantId)
       IN  wire' = IF ~Truthy(participant_id) THEN wire
                   ELSE wire \o SendPayloadWire([participant_id |-> participant_id,
                                                 event_type     |-> "test_run",
                                                 event_data     |-> [id |-> sendCalls + 1],
                                                 timestamp      |-> now])
    /\ UNCHANGED <<sendVariant, beaconAvailable, configEndpoint, globalApiBase, metaApiBase, endpoint, endpointResolved>>
    /\ UNCHANGED <<now, idVars, sent, inflight, logVars, clickVars, editorLen, debVars, monVars, sevVars, idleVars, initVars, recordVars>>

NextSend ==
    \/ TrackerInit
    \/ SendLogEvent

SpecSend == InitSend /\ [][NextSend]_vars

(* the transport rule on one request *)
TransportRule(w) ==
    /\ beaconAvailable => w.transport = "beacon"
    /\ ~beaconAvailable =>
          /\ w.transport # "beacon"
          /\ w.keepalive = "true"
          /\ w.credentials = "omit"

(* C22: every payload goes out over the beacon transport when it is         *)
(* available and is then not POSTed; when it is unavailable it goes out as  *)
(* exactly one keep-alive POST without credentials; no payload is sent      *)
(* over both transports.                                                    *)
C22_TransportSelection ==
    /\ \A i \in DOMAIN wire : TransportRule(wire[i])
    /\ \A i, j \in DOMAIN wire :
          wire[i].payload.event_data.id = wire[j].payload.event_data.id => i = j

(* the variant sending to the configurable endpoint follows the rule *)
TransportRuleHoldsForOmitVariant ==
    sendVariant = "beacon_or_fetch_omit" => C22_TransportSelection

----------------------------------------------------------------------------
(* C23: a logEvent call stamps its payload with the provider's value when   *)
(* that is non-empty, otherwise with the global fallback when that is       *)
(* non-empty, and otherwise sends nothing; a provider that throws counts as *)
(* having supplied nothing, and its exception does not leave logEvent.      *)
C23_IdentityPrecedence ==
    [][calls' = calls + 1 =>
         /\ apiClient # "missing" =>
               /\ getParticipantIdResult = "p1" =>
                     /\ Len(sent') = Len(sent) + 1
                     /\ sent'[Len(sent')].participant_id = "p1"
               /\ getParticipantIdResult # "p1" /\ windowParticipantId = "w1" =>
                     /\ Len(sent') = Len(sent) + 1
                     /\ sent'[Len(sent')].participant_id = "w1"
               /\ getParticipantIdResult # "p1" /\ windowParticipantId # "w1" =>
                     /\ sent' = sent
                     /\ calls' \in dropped'
         /\ getParticipantIdResult = "throws" /\ apiClient # "throws" =>
               raised' = raised
    ]_vars

(* one call resolved by the provider although a fallback was set, one by    *)
(* the fallback after the provider threw, and one dropped call              *)
C23_Witness ==
    /\ Len(sent) = 2
    /\ sent[1].participant_id = "p1"
    /\ sent[2].participant_id = "w1"
    /\ getParticipantIdResult = "throws"
    /\ windowParticipantId = "w1"
    /\ dropped # {}
    /\ raised = {}

----------------------------------------------------------------------------
(* the endpoint each source stands for *)
FromConfig == endpoint = configEndpoint.chars
FromGlobal == endpoint = StripTrailingSlash(globalApiBase.chars) \o DefaultPath
FromMeta == endpoint = StripTrailingSlash(metaApiBase.chars) \o DefaultPath
FromDefault == endpoint = DefaultPath

(* a source that is neither absent nor empty *)
Present(v) == v.kind # "undefined" /\ v.chars # <<>>

Initialised == endpointResolved /\ sendVariant = "beacon_or_fetch_omit"

(* C24 as stated: after init the endpoint comes from the first source, in   *)
(* the order configuration, global override, meta declaration, default,     *)
(* that is neither absent nor empty.                                        *)
C24_AsStated ==
    Initialised =>
        /\ Present(configEndpoint) => FromConfig
        /\ ~Present(configEndpoint) /\ Present(globalApiBase) => FromGlobal
        /\ ~Present(configEndpoint) /\ ~Present(globalApiBase) /\ Present(metaApiBase) => FromMeta
        /\ ~Present(configEndpoint) /\ ~Present(globalApiBase) /\ ~Present(metaApiBase) => FromDefault

(* the explicit configuration counts only when it is a non-empty string *)
ConfigUsable == Present(configEndpoint) /\ configEndpoint.kind = "string"

(* C24: after init the endpoint comes from the first usable source in the   *)
(* order configuration, global override, meta declaration, default; the     *)
(* configuration is usable when it is a non-empty string, the override and  *)
(* the declaration when they are not absent and not empty, and the two      *)
(* bases are used without one trailing slash and followed by the default    *)
(* path. Before init the endpoint is the default path, and every request    *)
(* goes to the endpoint in force when it was sent.                          *)
C24_EndpointFromFirstUsableSource ==
    /\ [](Initialised =>
            /\ ConfigUsable => FromConfig
            /\ ~ConfigUsable /\ Present(globalApiBase) => FromGlobal
            /\ ~ConfigUsable /\ ~Present(globalApiBase) /\ Present(metaApiBase) => FromMeta
            /\ ~ConfigUsable /\ ~Present(globalApiBase) /\ ~Present(metaApiBase) => FromDefault)
    /\ [](~endpointResolved => FromDefault)
    /\ [][sendVariant = "beacon_or_fetch_omit" /\ Len(wire') > Len(wire) =>
             wire'[Len(wire')].url = endpoint]_vars

(* a configuration that is no string and an empty override: the endpoint    *)
(* came from the meta declaration, stripped of its slash, and was used      *)
C24_Witness ==
    /\ Initialised
    /\ configEndpoint.kind = "object"
    /\ globalApiBase = [kind |-> "string", chars |-> <<>>]
    /\ metaApiBase = [kind |-> "string", chars |-> <<"h", "/">>]
    /\ endpoint = <<"h", "/", "log">>
    /\ wire # <<>>
    /\ wire[Len(wire)].url = endpoint

----------------------------------------------------------------------------
(* a resetCodeMonitoring call *)
ResetStep == turn'.resets = turn.resets + 1

(* C25: resetCodeMonitoring leaves every editor's edit state as             *)
(* _createEditorState makes it and the significant-edit history and the     *)
(* problem-event list empty, whatever they held, and sends nothing; a       *)
(* second call right after the first changes nothing of the tracker.        *)
C25_ResetRestoresInitialState ==
    /\ [][ResetStep =>
            /\ codeMonitorStates' = [e \in EditorNames |-> CreateEditorState]
            /\ significantEdits' = <<>>
            /\ problemEvents' = <<>>
            /\ sent' = sent]_vars
    /\ [][ResetStep /\ turn.resets > 0 =>
            UNCHANGED <<codeMonitorStates, significantEdits, problemEvents,
                        lastHintTime, sent, inflight, editorLen>>]_vars

(* two resets in a row, the first of which found text in an editor and      *)
(* threw away both significant edits and problem events                     *)
C25_Witness ==
    /\ turn.resets = 2
    /\ turn.clearedProblems >= 1
    /\ turn.cleared > turn.clearedProblems
    /\ \E e \in trackedEditors : editorLen[e] > 0
    /\ codeMonitorStates = [e \in EditorNames |-> CreateEditorState]
    /\ significantEdits = <<>>
    /\ problemEvents = <<>>

----------------------------------------------------------------------------
(* SpecInit: the calls that set the tracker up, for every set of feature   *)
(* flags and every shape of the editors object                             *)

FeatureFlags == {"user_idle", "code_edit", "ai_help_request", "test_submission", "dom_element_select", "page_click", "element_clicks"}

(* the init* methods the class of lines 19-923 defines; initChat and        *)
(* initTestActions are commented out, initEditors and initDOMSelector are   *)
(* not in it                                                                *)
DefinedMethods == {"initIdleAndFocus", "initPageClick", "initSmartCodeTracking", "initAuto"}

(* the statements of init(config) in order: the flag that guards the call,  *)
(* whether window.editors must be set too, the flag that must be off, and   *)
(* the method called                                                        *)
InitSteps ==
    << [flag |-> "user_idle", editors |-> FALSE, unless |-> "none", method |-> "initIdleAndFocus"],
       [flag |-> "code_edit", editors |-> TRUE, unless |-> "none", method |-> "initEditors"],
       [flag |-> "ai_help_request", editors |-> FALSE, unless |-> "none", method |-> "initChat"],
       [flag |-> "test_submission", editors |-> TRUE, unless |-> "none", method |-> "initTestActions"],
       [flag |-> "dom_element_select", editors |-> FALSE, unless |-> "none", method |-> "initDOMSelector"],
       [flag |-> "page_click", editors |-> FALSE, unless |-> "none", method |-> "initPageClick"],
       [flag |-> "element_clicks", editors |-> FALSE, unless |-> "page_click", method |-> "initPageClick"] >>

(* the statements of initBehaviorTracker inside its try block *)
HostSteps ==
    << [flag |-> "always", editors |-> FALSE, unless |-> "none", method |-> "initDOMSelector"],
       [flag |-> "always", editors |-> FALSE, unless |-> "none", method |-> "initChat"],
       [flag |-> "always", editors |-> FALSE, unless |-> "none", method |-> "initIdleAndFocus"] >>

StepApplies(step, config) ==
    /\ step.flag = "always" \/ step.flag \in config
    /\ step.editors => windowEditors
    /\ step.unless \notin config

(* runs the statements from the k-th on: calling a method the object does   *)
(* not have is a TypeError that ends the run                                *)
RECURSIVE RunSteps(_, _, _, _)
RunSteps(steps, config, k, done) ==
    IF k > Len(steps) THEN [installed |-> done, outcome |-> "returned"]
    ELSE IF ~StepApplies(steps[k], config) THEN RunSteps(steps, config, k + 1, done)
    ELSE IF steps[k].method \notin DefinedMethods THEN [installed |-> done, outcome |-> "raised"]
    ELSE RunSteps(steps, config, k + 1, done \cup {steps[k].method})

HookStates == {"missing", "nohook", "hook"}

InitSetup ==
    /\ now = StartTime
    /\ getParticipantIdResult = "p1"
    /\ windowParticipantId = "undefined"
    /\ apiClient = "ok"
    /\ sent = <<>>
    /\ inflight = 0
    /\ calls = 0
    /\ dropped = {}
    /\ raised = {}
    /\ ClickConstructed
    /\ EditorsConstructed
    /\ MonitorConstructed
    /\ SeverityConstructed
    /\ IdleConstructed
    /\ SendConstructed
    /\ RecordConstructed
    /\ initConfig \in SUBSET FeatureFlags
    /\ windowEditors \in BOOLEAN
    /\ editorHooks \in (IF windowEditors THEN [EditorNames -> HookStates] ELSE {[e \in EditorNames |-> "missing"]})
    /\ installed = {}
    /\ initOutcome = [c \in InitCallers |-> "none"]

(* tracker.init(config) *)
InitCall ==
    /\ initOutcome["init"] = "none"
    /\ LET run == RunSteps(InitSteps, initConfig, 1, installed)
       IN  /\ installed' = run.installed
           /\ initOutcome' = [initOutcome EXCEPT !["init"] = run.outcome]
    /\ UNCHANGED <<initConfig, windowEditors, editorHooks>>
    /\ UNCHANGED <<now, idVars, sent, inflight, logVars, clickVars, editorLen, debVars, monVars, sevVars, idleVars, sendVars, recordVars>>

(* initBehaviorTracker(): the error of the try block is caught and logged *)
InitBehaviorTrackerCall ==
    /\ initOutcome["initBehaviorTracker"] = "none"
    /\ LET run == RunSteps(HostSteps, initConfig, 1, installed)
       IN  /\ installed' = run.installed
           /\ initOutcome' = [initOutcome EXCEPT !["initBehaviorTracker"] = "returned"]
    /\ UNCHANGED <<initConfig, windowEditors, editorHooks>>
    /\ UNCHANGED <<now, idVars, sent, inflight, logVars, clickVars, editorLen, debVars, monVars, sevVars, idleVars, sendVars, recordVars>>

(* initSmartCodeTracking that installs nothing unless every editor has the hook *)
InitSmartCodeTrackingAllOrNothing ==
    /\ initOutcome["initSmartCodeTracking"] = "none"
    /\ initOutcome' = [initOutcome EXCEPT !["initSmartCodeTracking"] = "returned"]
    /\ trackedEditors' = IF windowEditors /\ \A e \in EditorNames : editorHooks[e] = "hook"
                         THEN EditorNames ELSE {}
    /\ UNCHANGED <<initConfig, windowEditors, editorHooks, installed>>
    /\ UNCHANGED <<contentLengths, codeMonitorStates, significantEdits, problemEvents, lastHintTime, handled, turn, cycleRun, unsentEdits>>
    /\ UNCHANGED <<now, idVars, sent, inflight, logVars, clickVars, editorLen, debVars, sevVars, idleVars, sendVars, recordVars>>

(* initSmartCodeTracking(window.editors): the listener goes on each editor  *)
(* that is there and whose onDidChangeModelContent is a function            *)
InitSmartCodeTrackingCall ==
    /\ initOutcome["initSmartCodeTracking"] = "none"
    /\ initOutcome' = [initOutcome EXCEPT !["initSmartCodeTracking"] = "returned"]
    /\ trackedEditors' = IF windowEditors
                         THEN {e \in DOMAIN editorHooks : editorHooks[e] = "hook"}
                         ELSE {}
    /\ UNCHANGED <<initConfig, windowEditors, editorHooks, installed>>
    /\ UNCHANGED <<contentLengths, codeMonitorStates, significantEdits, problemEvents, lastHintTime, handled, turn, cycleRun, unsentEdits>>
    /\ UNCHANGED <<now, idVars, sent, inflight, logVars, clickVars, editorLen, debVars, sevVars, idleVars, sendVars, recordVars>>

NextInit ==
    \/ InitCall
    \/ InitBehaviorTrackerCall
    \/ InitSmartCodeTrackingCall

SpecInit == InitSetup /\ [][NextInit]_vars

(* C26: init with any set of feature flags, and the page's own              *)
(* initBehaviorTracker, return without raising into the host page.          *)
C26_InitNeverRaises ==
    \A c \in InitCallers : initOutcome[c] # "raised"

(* C27: initSmartCodeTracking puts the change listener on exactly the       *)
(* editors whose onDidChangeModelContent is a function; an editor that is   *)
(* missing or has no such function is passed over, the call returns without *)
(* raising, and what init installed and every other part of the tracker     *)
(* stay as they were.                                                       *)
C27_TrackingOnEditorsWithHook ==
    /\ [](initOutcome["initSmartCodeTracking"] = "returned" =>
             \A e \in EditorNames :
                 e \in trackedEditors <=> (windowEditors /\ editorHooks[e] = "hook"))
    /\ [](initOutcome["initSmartCodeTracking"] # "raised")
    /\ [][initOutcome'["initSmartCodeTracking"] # initOutcome["initSmartCodeTracking"] =>
             UNCHANGED <<installed, clickVars, idleVars, sendVars, recordVars, sent, codeMonitorStates>>]_vars

(* one editor missing, one without the hook, one with it: only the last is  *)
(* tracked, next to the features init installed                             *)
C27_Witness ==
    /\ initOutcome["initSmartCodeTracking"] = "returned"
    /\ initOutcome["init"] = "returned"
    /\ installed = {"initIdleAndFocus", "initPageClick"}
    /\ editorHooks = [html |-> "missing", css |-> "nohook", js |-> "hook"]
    /\ trackedEditors = {"js"}

----------------------------------------------------------------------------
(* SpecClickRecord: _buildClickRecord applied to a clicked element         *)

ElementTags == {"button", "input", "textarea", "a", "div", "span"}

(* el.type of an input *)
InputTypes == {"text", "password", "file"}

(* the one attribute the element carries besides its tag *)
ElementAttrs == {"none", "contenteditable", "role_button", "href", "tabindex", "tabindex_minus1"}

(* characters of a text: a whitespace character and any other character *)
TextChars == {"a", " "}

(* the clicked elements: text is el.value of an input or textarea and      *)
(* el.textContent of any other element                                    *)
Elements ==
    {[tag |-> g, type |-> y, attr |-> a, text |-> x] :
        g \in ElementTags, y \in InputTypes \cup {"none"}, a \in ElementAttrs,
        x \in SeqsUpTo(TextChars, MaxTextLen)}

(* _isInteractive(el) *)
IsInteractive(el) ==
    \/ el.tag \in {"button", "input", "select", "textarea", "label"}
    \/ el.attr = "contenteditable"
    \/ el.attr = "role_button"
    \/ el.tag = "a" /\ el.attr = "href"
    \/ el.attr = "tabindex"

(* text.trim() *)
RECURSIVE TrimStart(_)
TrimStart(s) == IF s # <<>> /\ Head(s) = " " THEN TrimStart(Tail(s)) ELSE s

RECURSIVE TrimEnd(_)
TrimEnd(s) ==
    IF s # <<>> /\ s[Len(s)] = " " THEN TrimEnd(SubSeq(s, 1, Len(s) - 1)) ELSE s

Trim(s) == TrimEnd(TrimStart(s))

(* text.replace(/\s+/g, ' ') *)
RECURSIVE CollapseWhitespace(_)
CollapseWhitespace(s) ==
    IF Len(s) < 2 THEN s
    ELSE IF s[1] = " " /\ s[2] = " " THEN CollapseWhitespace(Tail(s))
    ELSE <<s[1]>> \o CollapseWhitespace(Tail(s))

(* the two results of _getInteractiveContent: null or a non-empty string *)
NullContent == [isNull |-> TRUE, chars |-> <<>>]

StringContent(s) == [isNull |-> FALSE, chars |-> s]

(* _getInteractiveContent without the slice *)
GetInteractiveContentUnsliced(el, maxLen) ==
    IF el.tag = "input" /\ el.type \in {"password", "file"} THEN NullContent
    ELSE LET text == CollapseWhitespace(Trim(el.text))
         IN  IF text = <<>> THEN NullContent ELSE StringContent(text)

(* _getInteractiveContent(el, maxLen) *)
GetInteractiveContent(el, maxLen) ==
    IF el.tag = "input" /\ el.type \in {"password", "file"} THEN NullContent
    ELSE LET text == CollapseWhitespace(Trim(el.text))
             sliced == IF Len(text) > maxLen THEN SubSeq(text, 1, maxLen) ELSE text
         IN  IF sliced = <<>> THEN NullContent ELSE StringContent(sliced)

(* _buildClickRecord(target, e, maxLen): the fields about the content *)
BuildClickRecord(target, maxLen) ==
    LET interactive == IsInteractive(target)
        content == IF interactive THEN GetInteractiveContent(target, maxLen) ELSE NullContent
    IN  [built |-> TRUE,
         interactive |-> interactive,
         contentIsNull |-> content.isNull,
         content |-> content.chars,
         content_len |-> IF content.isNull THEN 0 ELSE Len(content.chars)]

InitClickRecord ==
    /\ now = StartTime
    /\ getParticipantIdResult = "p1"
    /\ windowParticipantId = "undefined"
    /\ apiClient = "ok"
    /\ sent = <<>>
    /\ inflight = 0
    /\ calls = 0
    /\ dropped = {}
    /\ raised = {}
    /\ ClickConstructed
    /\ EditorsConstructed
    /\ MonitorConstructed
    /\ SeverityConstructed
    /\ IdleConstructed
    /\ SendConstructed
    /\ InitConstructed
    /\ clickTarget \in {el \in Elements : el.type = "none" <=> el.tag # "input"}
    /\ includeTextMaxLen \in 0..IncludeTextMaxLen
    /\ clickRecord = NoRecord

(* the click handler of initPageClick builds the record of its target *)
BuildClickRecordCall ==
    /\ ~clickRecord.built
    /\ clickRecord' = BuildClickRecord(clickTarget, includeTextMaxLen)
    /\ UNCHANGED <<clickTarget, includeTextMaxLen>>
    /\ UNCHANGED <<now, idVars, sent, inflight, logVars, clickVars, editorLen, debVars, monVars, sevVars, idleVars, sendVars, initVars>>

NextClickRecord == BuildClickRecordCall

SpecClickRecord == InitClickRecord /\ [][NextClickRecord]_vars

(* the elements the tracker counts as interactive, by tag or attribute *)
InteractiveTarget ==
    \/ clickTarget.tag \in {"button", "input", "textarea"}
    \/ clickTarget.attr \in {"contenteditable", "role_button", "tabindex"}
    \/ clickTarget.tag = "a" /\ clickTarget.attr = "href"

(* C28: a click record carries content only when its target is             *)
(* interactive, never for a password or file input, and content that is    *)
(* there has at most includeTextMaxLen characters and content_len equal to *)
(* its length; a record without content has content_len 0.                 *)
C28_ContentOnlyInteractiveAndBounded ==
    clickRecord.built =>
        /\ ~clickRecord.contentIsNull => InteractiveTarget /\ clickRecord.interactive
        /\ clickTarget.tag = "input" /\ clickTarget.type \in {"password", "file"} =>
              clickRecord.contentIsNull
        /\ ~clickRecord.contentIsNull =>
              /\ Len(clickRecord.content) <= includeTextMaxLen
              /\ Len(clickRecord.content) > 0
              /\ clickRecord.content_len = Len(clickRecord.content)
        /\ clickRecord.contentIsNull => clickRecord.content_len = 0

(* a button whose text is longer than the limit after trimming and         *)
(* collapsing: the record holds its first includeTextMaxLen characters     *)
C28_Witness ==
    /\ clickRecord.built
    /\ clickTarget.tag = "button"
    /\ clickTarget.text = <<"a", " ", " ", "a">>
    /\ includeTextMaxLen = 2
    /\ ~clickRecord.contentIsNull
    /\ clickRecord.content = <<"a", " ">>
    /\ clickRecord.content_len = 2

----------------------------------------------------------------------------
(* a change notification on editor s that made its content shorter *)
DeletingSignalOn(s) == SignalOn(s) /\ turn'.resets = 0 /\ turn'.lengthChange < 0

(* C29: a deleting signal on an editor that is not deleting makes it        *)
(* deleting, stamps deleteStartTime with the time of the signal, sets       *)
(* deleteStartLength to a length of that signal and adds exactly one to     *)
(* consecutiveEdits; a deleting signal on an editor that is already         *)
(* deleting leaves these four fields as they are. The other editors'        *)
(* states are not touched either way.                                       *)
C29_DeletionStartsOnce ==
    [][\A s \in EditorNames :
          DeletingSignalOn(s) =>
             LET old == codeMonitorStates[s]
                 new == codeMonitorStates'[s]
             IN  /\ ~old.isDeleting =>
                       /\ new.isDeleting
                       /\ new.deleteStartTime = now
                       /\ new.deleteStartLength \in {old.lastLength, new.lastLength}
                       /\ new.consecutiveEdits = old.consecutiveEdits + 1
                 /\ old.isDeleting =>
                       /\ new.isDeleting
                       /\ new.deleteStartTime = old.deleteStartTime
                       /\ new.deleteStartLength = old.deleteStartLength
                       /\ new.consecutiveEdits = old.consecutiveEdits
                 /\ \A o \in EditorNames \ {s} :
                       codeMonitorStates'[o] = codeMonitorStates[o]
    ]_vars

(* a second deleting signal in a row: the editor is shorter than the        *)
(* recorded start length, later than the recorded start time, and the       *)
(* counter is the one the signal found                                      *)
C29_Witness ==
    \E s \in trackedEditors :
        /\ turn.editor = s
        /\ turn.resets = 0
        /\ turn.lengthChange < 0
        /\ codeMonitorStates[s].isDeleting
        /\ codeMonitorStates[s].deleteStartLength > editorLen[s]
        /\ codeMonitorStates[s].deleteStartTime < now
        /\ codeMonitorStates[s].consecutiveEdits = turn.consecutiveEdits
        /\ turn.consecutiveEdits >= 1

----------------------------------------------------------------------------
(* the signal before this one was the first deletion of a cycle on editor s *)
FirstDeletionJustSeen(s) ==
    /\ turn.editor = s
    /\ turn.resets = 0
    /\ turn.lengthChange < 0
    /\ codeMonitorStates[s].isDeleting
    /\ codeMonitorStates[s].consecutiveEdits = turn.consecutiveEdits + 1

(* the length editor s had before that deletion *)
LengthBeforeDeletion(s) == codeMonitorStates[s].lastLength - turn.lengthChange

(* C30: the netChange of a completed edit cycle is the length after the     *)
(* completing addition minus the length the editor had immediately before   *)
(* the first deletion of the cycle (stated for the cycles whose deletion is *)
(* one signal, where that length is the one before the previous signal).    *)
C30_NetChangeStartToFinish ==
    [][\A s \in EditorNames :
          (SignalOn(s) /\ turn'.completed /\ FirstDeletionJustSeen(s)) =>
              turn'.netChange = editorLen'[s] - LengthBeforeDeletion(s)
    ]_vars

----------------------------------------------------------------------------
(* the step appends a problem event to the list *)
ProblemRecorded == Len(problemEvents') = Len(problemEvents) + 1

(* what the step handed to the transport *)
SentInStep == SubSeq(sent', Len(sent) + 1, Len(sent'))

(* payload w is the coding_problem event of problem event p *)
CarriesProblem(w, p) ==
    /\ w.event_type = "coding_problem"
    /\ w.event_data.editor = p.editor
    /\ w.event_data.consecutive_edits = p.consecutiveEdits
    /\ w.event_data.severity = p.severity
    /\ w.event_data.timestamp = p.timestamp

(* C31: the turn that records a problem event sends (a participant id       *)
(* being resolved) exactly one coding_problem event carrying it, stamped    *)
(* with the time of the signal, and sends it before the significant_edits   *)
(* batch of that turn; a coding_problem event is never sent in any other    *)
(* turn, and the passing of time alone sends nothing.                       *)
C31_ProblemSentInSameTurn ==
    /\ [][(ProblemRecorded /\ Truthy(getParticipantIdResult)) =>
             LET p == problemEvents'[Len(problemEvents')]
             IN  \E i \in DOMAIN SentInStep :
                    /\ CarriesProblem(SentInStep[i], p)
                    /\ p.timestamp = now
                    /\ \A j \in DOMAIN SentInStep :
                          /\ SentInStep[j].event_type = "coding_problem" => j = i
                          /\ SentInStep[j].event_type = "significant_edits" => j > i]_vars
    /\ [][\A j \in DOMAIN SentInStep :
             SentInStep[j].event_type = "coding_problem" =>
                /\ ProblemRecorded
                /\ CarriesProblem(SentInStep[j], problemEvents'[Len(problemEvents')])]_vars
    /\ [][now' # now => sent' = sent]_vars

(* the latest signal completed a cycle that recorded a problem: the last    *)
(* two events sent are its coding_problem and then the batch               *)
C31_Witness ==
    /\ turn.completed
    /\ problemEvents # <<>>
    /\ Len(sent) >= 2
    /\ CarriesProblem(sent[Len(sent) - 1], problemEvents[Len(problemEvents)])
    /\ problemEvents[Len(problemEvents)].timestamp = now
    /\ sent[Len(sent)].event_type = "significant_edits"

----------------------------------------------------------------------------
(* the step is a change notification handled by _smartRecordCodeChange *)
EditHandled == handled' = handled + 1

(* the step pushed a record on a history that was full *)
HistoryOverflows ==
    /\ EditHandled
    /\ significantEdits' # significantEdits
    /\ Len(significantEdits) = MaxHistoryLength

(* C32: after every edit signal the significant-edit history holds at most  *)
(* maxHistoryLength records; a signal leaves the history alone or appends   *)
(* one record at its end, and when that would exceed the cap the record at  *)
(* the front, the oldest, is the one removed: the others keep their order.  *)
C32_HistoryBoundedFifo ==
    /\ [](Len(significantEdits) <= MaxHistoryLength)
    /\ [][EditHandled =>
             \/ significantEdits' = significantEdits
             \/ /\ significantEdits' # <<>>
                /\ LET r == significantEdits'[Len(significantEdits')]
                       pushed == Append(significantEdits, r)
                   IN  /\ r.timestamp = now
                       /\ Len(pushed) <= MaxHistoryLength => significantEdits' = pushed
                       /\ Len(pushed) > MaxHistoryLength => significantEdits' = Tail(pushed)]_vars
    /\ [][(EditHandled /\ turn'.completed /\ Abs(turn'.netChange) >= MinChangeThreshold) =>
             /\ significantEdits' # <<>>
             /\ LET r == significantEdits'[Len(significantEdits')]
                IN  r.type = "edit_cycle" /\ r.timestamp = now /\ r.editor = turn'.editor
             /\ Len(significantEdits) = MaxHistoryLength =>
                   SubSeq(significantEdits', 1, MaxHistoryLength - 1) = Tail(significantEdits)]_vars

(* more cycles recorded in a row than the history holds: it is full, the    *)
(* records are in arrival order and the newest is from the latest signal    *)
C32_Witness ==
    /\ Len(significantEdits) = MaxHistoryLength
    /\ turn.completed
    /\ cycleRun[turn.editor] > MaxHistoryLength
    /\ significantEdits[Len(significantEdits)].timestamp = now
    /\ significantEdits[1].timestamp < now
    /\ \A i \in 1..(Len(significantEdits) - 1) :
          significantEdits[i].timestamp <= significantEdits[i + 1].timestamp

----------------------------------------------------------------------------
(* C33: debouncing is per surface: once every surface has stayed quiet for  *)
(* quietMs (no debounce timer is pending), each edit signal has been        *)
(* followed by a code_edit report for its own surface.                      *)
C33_DebouncePerSurface ==
    debTimerId = NoTimer =>
        \A k \in DOMAIN editSignals :
           \E i \in DOMAIN codeEdits :
              /\ codeEdits[i].name = editSignals[k].name
              /\ codeEdits[i].at >= editSignals[k].at + DebounceMs

----------------------------------------------------------------------------
(* SpecClickFair: click, batch timer and clock of the page_click tracker     *)
(* under the scheduling of the runtime: a timer that is due is run, and    *)
(* time passes while a timer is pending. The forced flushes on page hide,  *)
(* which can only empty the buffer sooner, are not among its steps.        *)

(* the clock advances until the pending batch timer is due, also past the   *)
(* horizon of the other specifications                                     *)
TickUntilFlush ==
    /\ now < StartTime + MaxElapsed \/ (clickBatchTimer >= 0 /\ now < clickBatchTimer)
    /\ NoTimerDue
    /\ now' = now + 1
    /\ UNCHANGED <<idVars, sent, inflight, logVars, clickVars>>
    /\ UNCHANGED <<editorLen, debVars, monVars, sevVars, idleVars, auxVars>>

NextClickFair ==
    \/ Click
    \/ ClickBatchTimerFires
    \/ SessionChange
    \/ TickUntilFlush

(* the page_click tracker of lines 1-930 with batching enabled *)
InitClickFair ==
    /\ InitClick
    /\ clickVariant = "page_click"
    /\ clickCfgBatch

SpecClickFair ==
    /\ InitClickFair
    /\ [][NextClickFair]_vars
    /\ WF_vars(ClickBatchTimerFires)
    /\ WF_vars(TickUntilFlush)

(* click record `id` is in the buffer *)
Buffered(id) == \E k \in DOMAIN clickBatch : clickBatch[k].id = id

(* click record `id` was handed to _sendClickBatch *)
Flushed(id) ==
    \E i \in DOMAIN flushes : \E k \in DOMAIN flushes[i].items : flushes[i].items[k].id = id

(* C34: a click that joins a non-empty buffer leaves the pending batch timer *)
(* where the first buffered click put it, the clock never passes a pending *)
(* timer, and every buffered click is eventually handed to a flush.        *)
C34_ClicksCannotStarveFlush ==
    /\ [][(clickBatch # <<>> /\ clickBatch' # <<>> /\ Len(clickBatch') >= Len(clickBatch))
             => (clickBatchTimer >= 0 /\ clickBatchTimer' = clickBatchTimer)]_vars
    /\ [](clickBatch # <<>> => (clickBatchTimer >= 0 /\ now <= clickBatchTimer))
    /\ \A id \in 1..MaxClicks : Buffered(id) ~> Flushed(id)

(* clicks at different times, less than flushInterval apart, were flushed    *)
(* together by the timer that the first of them started                    *)
C34_Witness ==
    \E i \in DOMAIN flushes :
       /\ flushTriggers[i] = "timer"
       /\ Len(flushes[i].items) >= 2
       /\ flushes[i].items[2].t > flushes[i].items[1].t
       /\ flushes[i].items[2].t < flushes[i].items[1].t + FlushInterval
       /\ flushes[i].at <= flushes[i].items[1].t + FlushInterval

----------------------------------------------------------------------------
(* no participant id can be resolved in this turn *)
IdentityAbsent == ~Truthy(ResolveParticipantId(getParticipantIdResult, windowParticipantId))

(* the ids of the click records in the payloads handed to the transport *)
SentClickIds ==
    UNION {{sent[i].event_data.items[k].id : k \in DOMAIN sent[i].event_data.items} :
              i \in DOMAIN sent}

(* the ids of the click records of the flushes made without an identity *)
UnsentClickIds ==
    UNION {{flushes[i].items[k].id : k \in DOMAIN flushes[i].items} :
              i \in {j \in DOMAIN flushes : ~flushes[j].delivered}}

(* C35: a batch flushed while no participant id is resolvable leaves the     *)
(* buffer empty and the timer cleared and sends nothing, and its records   *)
(* are neither buffered again nor part of any payload sent later.          *)
C35_UnsentBatchIsDropped ==
    /\ [][(clickCfgBatch /\ IdentityAbsent /\ flushes' # flushes) =>
             /\ clickBatch' = <<>>
             /\ clickBatchTimer' = NoTimer
             /\ sent' = sent
             /\ ~flushes'[Len(flushes')].delivered]_vars
    /\ [](clickCfgBatch =>
             /\ UnsentClickIds \cap SentClickIds = {}
             /\ \A k \in DOMAIN clickBatch : clickBatch[k].id \notin UnsentClickIds)

(* a batch was flushed by its timer without an identity, the identity came  *)
(* back, and a later batch was flushed and sent without the lost records   *)
C35_Witness ==
    /\ clickCfgBatch
    /\ Len(flushes) >= 2
    /\ ~flushes[1].delivered
    /\ flushTriggers[1] = "timer"
    /\ flushes[2].delivered
    /\ Len(sent) = 1
    /\ clickBatch = <<>>
    /\ clickBatchTimer = NoTimer

----------------------------------------------------------------------------
(* SpecSurfaces: initSmartCodeTracking(editors) on an editors object with   *)
(* any keys, then change notifications and resetCodeMonitoring             *)

(* Object.keys(editors): the three keys the constructor knows and one more *)
EditorKeys == EditorNames \cup {"python"}

InitSurfaces ==
    /\ now = StartTime
    /\ getParticipantIdResult = "p1"
    /\ windowParticipantId = "undefined"
    /\ apiClient = "ok"
    /\ sent = <<>>
    /\ inflight = 0
    /\ calls = 0
    /\ dropped = {}
    /\ raised = {}
    /\ ClickConstructed
    /\ EditorsConstructed
    /\ trackedEditors = {}
    /\ contentLengths = 0..MaxLen
    /\ codeMonitorStates = [e \in EditorNames |-> CreateEditorState]
    /\ significantEdits = <<>>
    /\ problemEvents = <<>>
    /\ lastHintTime = 0
    /\ handled = 0
    /\ turn = NoTurn
    /\ cycleRun = [e \in EditorNames |-> 0]
    /\ unsentEdits = <<>>
    /\ SeverityConstructed
    /\ IdleConstructed
    /\ SendConstructed
    /\ RecordConstructed
    /\ initConfig = {}
    /\ windowEditors = TRUE
    /\ editorHooks \in [EditorKeys -> HookStates]
    /\ installed = {}
    /\ initOutcome = [c \in InitCallers |-> "none"]

(* the listener of initSmartCodeTracking runs _smartRecordCodeChange:       *)
(* `state = this.codeMonitorStates[editorType]` is undefined for a key the  *)
(* constructor did not create, and reading state.lastLength throws         *)
SurfaceSignal ==
    /\ handled < MaxSurfaceSignals
    /\ \E editorType \in trackedEditors, len \in contentLengths :
          IF editorType \in DOMAIN codeMonitorStates
          THEN /\ \E m \in IF codeMonitorStates[editorType].isDeleting
                           THEN 1..NumHintMessages ELSE {1} :
                      SmartRecordCodeChange(editorType, len, m)
               /\ editorLen' = [editorLen EXCEPT ![editorType] = len]
               /\ UNCHANGED raised
          ELSE /\ raised' = raised \cup {editorType}
               /\ UNCHANGED <<codeMonitorStates, significantEdits, problemEvents,
                              lastHintTime, sent, inflight, unsentEdits, editorLen>>
    /\ handled' = handled + 1
    /\ UNCHANGED <<now, idVars, calls, dropped, clickVars, debVars, trackedEditors,
                   contentLengths, turn, cycleRun, sevVars, idleVars, auxVars>>

NextSurfaces ==
    \/ InitSmartCodeTrackingCall
    \/ SurfaceSignal
    \/ ResetCodeMonitoring

SpecSurfaces == InitSurfaces /\ [][NextSurfaces]_vars

(* C36: handling a change notification never throws: every editor that      *)
(* initSmartCodeTracking put a listener on has its monitor state when a    *)
(* notification arrives, also after resetCodeMonitoring.                   *)
C36_EditSignalNeverThrows == raised = {}

(* the editors the constructor knows never throw, reset or not *)
KnownEditorsNeverThrow == raised \cap EditorNames = {}

----------------------------------------------------------------------------
(* C37: between handler turns in batch mode a batch timer is pending        *)
(* exactly when the buffer holds a record, the buffer holds fewer than     *)
(* maxBatchSize records, and a timer is started only when none is pending, *)
(* so that there is never more than one.                                   *)
C37_TimerIffBufferedBelowMax ==
    /\ [](clickCfgBatch =>
             /\ clickBatchTimer >= 0 <=> clickBatch # <<>>
             /\ Len(clickBatch) < MaxBatchSize)
    /\ [][(clickCfgBatch /\ clickBatchTimer' >= 0 /\ clickBatchTimer' # clickBatchTimer)
             => clickBatchTimer < 0]_vars

(* after a flush the buffer has filled again to one record below            *)
(* maxBatchSize, with the timer of its first record pending                *)
C37_Witness ==
    /\ clickCfgBatch
    /\ MaxBatchSize >= 1
    /\ flushes # <<>>
    /\ Len(clickBatch) = MaxBatchSize - 1
    /\ clickBatchTimer = clickBatch[1].t + (IF clickBatch[1].hot THEN FrequentFlushInterval ELSE FlushInterval)
    /\ now > clickBatch[1].t

----------------------------------------------------------------------------
(* the user_idle payloads handed to the transport in this step *)
UserIdleSentInStep ==
    {i \in (Len(sent) + 1)..Len(sent') : sent'[i].event_type = "user_idle"}

(* C38: lastActivityTs is the time of the latest activity signal (of the    *)
(* start of idle tracking before the first one), and every user_idle event *)
(* of the idle scheduler starts at the lastActivityTs that preceded the    *)
(* idle session, ends at the time it is emitted, and its duration is end   *)
(* minus start and at least idleThresholdMs.                               *)
C38_IdleStartsAtLastActivity ==
    /\ [][ActivityStep => lastActivityTs' = now]_vars
    /\ [][lastActivityTs' # lastActivityTs => ActivityStep]_vars
    /\ [][idleVariant = "idle_session" =>
             \A i \in UserIdleSentInStep :
                LET d == sent'[i].event_data
                IN  /\ d.timestamp_start = lastActivityTs
                    /\ d.timestamp_end = now
                    /\ d.duration_ms = d.timestamp_end - d.timestamp_start
                    /\ d.duration_ms >= IdleThreshold]_vars

(* a user_idle event was emitted whose idle session followed an activity    *)
(* signal and was closed later than the idle timer ran                     *)
C38_Witness ==
    /\ idleVariant = "idle_session"
    /\ \E i \in DOMAIN sent :
          /\ sent[i].event_type = "user_idle"
          /\ sent[i].event_data.timestamp_start > StartTime
          /\ sent[i].event_data.duration_ms > IdleThreshold
          /\ sent[i].event_data.timestamp_end = now
          /\ lastActivityTs = now

----------------------------------------------------------------------------
(* the step handles an adding signal on s *)
AddingSignalOn(s) == SignalOn(s) /\ editorLen'[s] > codeMonitorStates[s].lastLength

(* C39: every adding signal on a surface, recorded or not, sets the          *)
(* surface's lastMeaningfulEdit to the time of the signal, and nothing but *)
(* an adding signal or a reset changes it; hence an addition of at least   *)
(* minChangeThreshold on a surface that is not deleting, no more than      *)
(* meaningfulEditTimeout after the preceding addition on that surface,     *)
(* records nothing.                                                        *)
C39_EveryAdditionRestartsTimeout ==
    /\ [][\A s \in EditorNames :
             AddingSignalOn(s) => codeMonitorStates'[s].lastMeaningfulEdit = now]_vars
    /\ [][\A s \in EditorNames :
             codeMonitorStates'[s].lastMeaningfulEdit # codeMonitorStates[s].lastMeaningfulEdit
                => (AddingSignalOn(s) \/ ResetStep)]_vars
    /\ [][\A s \in EditorNames :
             (/\ AddingSignalOn(s)
              /\ ~codeMonitorStates[s].isDeleting
              /\ editorLen'[s] - codeMonitorStates[s].lastLength >= MinChangeThreshold
              /\ now - codeMonitorStates[s].lastMeaningfulEdit <= MeaningfulEditTimeout)
                => /\ significantEdits' = significantEdits
                   /\ sent' = sent]_vars

(* an addition of threshold size came within the timeout of an earlier,     *)
(* unrecorded addition on the same surface and nothing was recorded         *)
C39_Witness ==
    /\ handled >= 2
    /\ turn.resets = 0
    /\ ~turn.completed
    /\ turn.lengthChange >= MinChangeThreshold
    /\ turn.elapsed <= MeaningfulEditTimeout
    /\ now > MeaningfulEditTimeout
    /\ codeMonitorStates[turn.editor].lastMeaningfulEdit = now
    /\ significantEdits = <<>>
    /\ problemEvents = <<>>
    /\ \A e \in EditorNames : ~codeMonitorStates[e].isDeleting

----------------------------------------------------------------------------
=============================================================================
